---- MODULE Spec2Model ----
(***************************************************************************)
(* No-Limit Texas Hold'em hand engine (green_agent_benchmark/engine.py).   *)
(* One hand of HoldemEngine.play_hand as a state machine: per-hand reset,  *)
(* hole cards, antes, blinds, four betting rounds, run-out, showdown and   *)
(* payout.  Agent decisions and the measured decision time are inputs.     *)
(***************************************************************************)
EXTENDS Integers, Sequences, FiniteSets, TLC

\* ------------------------------------------------------------------ bounds
\* Largest number of raises applied in one hand (caps the raise ladder).
MaxRaises == 2
\* Largest number of penalised decisions (timeouts + illegal actions) in one hand.
MaxPenalties == 1
\* Number of distinct hand-strength values best_hand_rank can take in the model.
NumRanks == 3
\* time_per_decision_ms of the model's tables (EngineConfig default is 60000).
Timebank == 2

\* ------------------------------------------------------------------ values
STREETS == <<"preflop", "flop", "turn", "river">>
CheckIfZeroElseFold == "check_if_zero_else_fold"
FoldPolicy == "fold"
RecognizedActions == {"fold", "check", "call", "raise_to"}

Max(a, b) == IF a >= b THEN a ELSE b
Min(a, b) == IF a <= b THEN a ELSE b

RECURSIVE SumOver(_, _)
SumOver(f, S) ==
    IF S = {} THEN 0
    ELSE LET x == CHOOSE y \in S : TRUE IN f[x] + SumOver(f, S \ {x})

SeqToSet(q) == {q[i] : i \in 1..Len(q)}

\* ------------------------------------------------------------ configuration
\* EngineConfig plus the stacks the PlayerRuntimeState records are built with.
EngineConfig(n, sb, bb, ss, atu, ante, runout, tpol, ipol, stacks) ==
    [seat_count |-> n, small_blind |-> sb, big_blind |-> bb,
     starting_stack |-> ss, auto_top_up |-> atu, ante |-> ante,
     runout_when_all_in |-> runout,
     timeout_fallback_policy |-> tpol,
     illegal_action_fallback_policy |-> ipol,
     time_per_decision_ms |-> Timebank,
     stacks |-> stacks]

\* The event sink handed to the engine: one whose log calls all complete, and
\* one that completes n log calls and raises on the next.
ReliableSink == [reliable |-> TRUE, left |-> 0]
FailingSink(n) == [reliable |-> FALSE, left |-> n]

\* A session: a configuration, the button seats it is played with, the number
\* of hands played on the same seat records, and the sinks it is played with.
Session(cfg, buttons, hands, sinks) ==
    [config |-> cfg, buttons |-> buttons, hands |-> hands, sinks |-> sinks]

\* The tables of the model: one hand with a reliable sink.
Table(cfg, buttons) == Session(cfg, buttons, 1, {ReliableSink})

Tables ==
    { \* heads-up 5/10 with 1000 chips each, topped up (the runner's table)
      Table(EngineConfig(2, 5, 10, 1000, TRUE, 0, TRUE, CheckIfZeroElseFold, CheckIfZeroElseFold, <<1000, 1000>>), {0}),
      \* three seats with stacks 100/300/500
      Table(EngineConfig(3, 50, 100, 1000, FALSE, 0, TRUE, CheckIfZeroElseFold, CheckIfZeroElseFold, <<100, 300, 500>>), {0}),
      \* small heads-up tables
      \* (two hands in a row on the same seat records)
      Session(EngineConfig(2, 1, 2, 6, TRUE, 0, TRUE, CheckIfZeroElseFold, FoldPolicy, <<6, 6>>), {0},
              2, {ReliableSink}),
      Table(EngineConfig(2, 1, 2, 6, FALSE, 0, TRUE, FoldPolicy, CheckIfZeroElseFold, <<7, 3>>), {0, 1}),
      \* (also with sinks that fail at the first, second, ... log call)
      Session(EngineConfig(2, 1, 2, 6, FALSE, 1, FALSE, CheckIfZeroElseFold, CheckIfZeroElseFold, <<1, 5>>), {0, 1},
              1, {ReliableSink} \cup {FailingSink(n) : n \in 0..13}),
      \* small three-seat tables
      Table(EngineConfig(3, 1, 2, 6, FALSE, 0, TRUE, CheckIfZeroElseFold, CheckIfZeroElseFold, <<6, 6, 5>>), {0}),
      Table(EngineConfig(3, 1, 2, 6, FALSE, 0, TRUE, CheckIfZeroElseFold, CheckIfZeroElseFold, <<2, 1, 7>>), {0, 1, 2}),
      Table(EngineConfig(3, 1, 2, 6, FALSE, 0, FALSE, CheckIfZeroElseFold, CheckIfZeroElseFold, <<3, 3, 3>>), {1}) }

VARIABLES
    config,           \* EngineConfig of the table
    button_seat,      \* play_hand argument
    players,          \* seat -> PlayerRuntimeState
    contributions,    \* seat -> chips put into the pot this hand
    pot,              \* running pot carried through the rounds
    current_bet,      \* highest street bet
    last_full_raise,  \* last full raise increment
    street,           \* index into STREETS of the current betting round
    board_cards,      \* the board: the deck positions of its cards, in dealing order
    deck_pos,         \* number of cards taken from the deck iterator
    queue,            \* deque of seats still to be visited in the round
    acted,            \* seat -> acted flag of the round
    request,          \* the ActionRequest awaiting the agent's answer
    round_result,     \* BettingRoundResult.everyone_all_in of the last round
    auto_runout,      \* play_hand local
    hand_ranks,       \* seat -> best_hand_rank value used by the showdown
    payouts,          \* seat -> payout
    deltas,           \* seat -> returned delta
    pc,               \* position of play_hand
    error,            \* exception that left play_hand, "" if none
    raises,           \* number of raises applied in the hand
    last_decision,    \* record of the decision just processed
    lone_seat,        \* the first seat that was the only non-folded seat, {} if none yet
    since_full,       \* seat -> acted since the last full raise of the round
    closed,           \* seat -> acted, then faced a short all-in raise
    sink,             \* the event sink: reliable, or the log calls it still completes
    hands_left,       \* hands the session plays after the current one
    penalised,        \* seat -> decisions classified as timeout / illegal action so far
    start_stack,      \* seat -> stack after the per-hand reset of the current hand
    recording,        \* whether the state keeps the action history and the events
                      \* (the engine always has them; where they are not examined
                      \* the state leaves them out and both stay empty)
    action_history,   \* play_hand local: the ActionHistoryEntry list of the hand
    events,           \* penalty and action events the sink took in the current hand
    start_counters,   \* seat -> timeouts + illegal_actions at the per-hand reset
    hand_cards,       \* card tokens handed to the hand evaluator
    hand_value        \* what the hand evaluator returned for them

vars == <<config, button_seat, players, contributions, pot, current_bet,
          last_full_raise, street, board_cards, deck_pos, queue, acted,
          request, round_result, auto_runout, hand_ranks, payouts, deltas,
          pc, error, raises, last_decision, lone_seat, since_full, closed,
          sink, hands_left, penalised, start_stack, recording, action_history,
          events, start_counters, hand_cards, hand_value>>

Seats == 0..(config.seat_count - 1)

\* no ActionRequest is pending (seat -1 is no seat of any table)
NoRequest == [seat |-> -1, to_call |-> 0, min_raise_to |-> 0, legal_actions |-> {},
              action_history |-> <<>>]
NoDecision == [kind |-> "none"]
\* the hand evaluator was not called
NotEvaluated == [tag |-> "none"]

\* ---------------------------------------------------------------- helpers
seat_after(seat, seat_count) == (seat + 1) % seat_count

\* the order of every street begun left of the button
compute_order_left_of_button(st, seat_count, button) ==
    [i \in 1..seat_count |-> (button + i) % seat_count]

compute_order(st, seat_count, button) ==
    LET small_blind_seat == seat_after(button, seat_count)
        big_blind_seat == seat_after(small_blind_seat, seat_count)
        first == IF st = "preflop"
                 THEN IF seat_count = 2 THEN button
                      ELSE seat_after(big_blind_seat, seat_count)
                 ELSE seat_after(button, seat_count)
    IN [i \in 1..seat_count |-> (first + i - 1) % seat_count]

\* reset_for_hand resetting the two session counters as well
reset_for_hand_and_counters(player, starting_stack) ==
    [player EXCEPT !.stack = starting_stack, !.bet = 0, !.folded = FALSE,
                   !.all_in = FALSE, !.hole_cards = <<>>,
                   !.timeouts = 0, !.illegal_actions = 0]

reset_for_hand(player, starting_stack) ==
    [player EXCEPT !.stack = starting_stack, !.bet = 0, !.folded = FALSE,
                   !.all_in = FALSE, !.hole_cards = <<>>]

_blind_seats(button) ==
    IF config.seat_count = 2
    THEN [small |-> button, big |-> seat_after(button, config.seat_count)]
    ELSE [small |-> seat_after(button, config.seat_count),
          big |-> seat_after(seat_after(button, config.seat_count), config.seat_count)]

\* _post_blind taking the blind in full whatever the stack
_post_blind_in_full(pl, contrib, seat, amount) ==
    LET posted == amount IN
    IF posted = 0
    THEN [players |-> [pl EXCEPT ![seat].all_in = TRUE], contributions |-> contrib, posted |-> 0]
    ELSE [players |-> [pl EXCEPT ![seat].stack = @ - posted,
                                  ![seat].bet = @ + posted,
                                  ![seat].all_in = (pl[seat].all_in \/ pl[seat].stack - posted = 0)],
          contributions |-> [contrib EXCEPT ![seat] = @ + posted],
          posted |-> posted]

\* [players, contributions, posted] after one blind
_post_blind(pl, contrib, seat, amount) ==
    LET posted == Min(amount, pl[seat].stack) IN
    IF posted = 0
    THEN [players |-> [pl EXCEPT ![seat].all_in = TRUE], contributions |-> contrib, posted |-> 0]
    ELSE [players |-> [pl EXCEPT ![seat].stack = @ - posted,
                                  ![seat].bet = @ + posted,
                                  ![seat].all_in = (pl[seat].all_in \/ pl[seat].stack - posted = 0)],
          contributions |-> [contrib EXCEPT ![seat] = @ + posted],
          posted |-> posted]

\* _post_ante returning 0 for what it posted
_post_ante_unreported(pl, contrib, seat, amount) ==
    LET posted == Min(amount, pl[seat].stack) IN
    IF posted = 0
    THEN [players |-> [pl EXCEPT ![seat].all_in = TRUE], contributions |-> contrib, posted |-> 0]
    ELSE [players |-> [pl EXCEPT ![seat].stack = @ - posted,
                                  ![seat].all_in = (pl[seat].all_in \/ pl[seat].stack - posted = 0)],
          contributions |-> [contrib EXCEPT ![seat] = @ + posted],
          posted |-> 0]

_post_ante(pl, contrib, seat, amount) ==
    LET posted == Min(amount, pl[seat].stack) IN
    IF posted = 0
    THEN [players |-> [pl EXCEPT ![seat].all_in = TRUE], contributions |-> contrib, posted |-> 0]
    ELSE [players |-> [pl EXCEPT ![seat].stack = @ - posted,
                                  ![seat].all_in = (pl[seat].all_in \/ pl[seat].stack - posted = 0)],
          contributions |-> [contrib EXCEPT ![seat] = @ + posted],
          posted |-> posted]

\* ------------------------------------------------------------------- Init
\* the state before the first play_hand call of a session on table t
Start ==
    /\ players = [s \in 0..(config.seat_count - 1) |->
                    [stack |-> config.stacks[s + 1], hole_cards |-> <<>>, bet |-> 0,
                     folded |-> FALSE, all_in |-> FALSE,
                     illegal_actions |-> 0, timeouts |-> 0]]
    /\ contributions = [s \in 0..(config.seat_count - 1) |-> 0]
    /\ pot = 0
    /\ current_bet = 0
    /\ last_full_raise = 0
    /\ street = 1
    /\ board_cards = <<>>
    /\ deck_pos = 0
    /\ queue = <<>>
    /\ acted = [s \in 0..(config.seat_count - 1) |-> FALSE]
    /\ request = NoRequest
    /\ round_result = FALSE
    /\ auto_runout = FALSE
    /\ hand_ranks = [s \in 0..(config.seat_count - 1) |-> 0]
    /\ payouts = [s \in 0..(config.seat_count - 1) |-> 0]
    /\ deltas = [s \in 0..(config.seat_count - 1) |-> 0]
    /\ pc = "reset"
    /\ error = ""
    /\ raises = 0
    /\ last_decision = NoDecision
    /\ lone_seat = {}
    /\ since_full = [s \in 0..(config.seat_count - 1) |-> FALSE]
    /\ closed = [s \in 0..(config.seat_count - 1) |-> FALSE]
    /\ penalised = [s \in 0..(config.seat_count - 1) |-> [timeouts |-> 0, illegal_actions |-> 0]]
    /\ start_stack = [s \in 0..(config.seat_count - 1) |-> config.stacks[s + 1]]
    /\ action_history = <<>>
    /\ events = <<>>
    /\ start_counters = [s \in 0..(config.seat_count - 1) |-> 0]

\* the hand evaluator is not used on its own
NoHand == hand_cards = <<>> /\ hand_value = NotEvaluated

\* a session on one of the tables
SessionOf(t) ==
    /\ config = t.config
    /\ button_seat \in t.buttons
    /\ hands_left = t.hands - 1

\* the sessions played with a sink whose log calls all complete
Init ==
    /\ \E t \in Tables : SessionOf(t) /\ sink = ReliableSink
    /\ recording = FALSE
    /\ Start
    /\ NoHand

\* the sessions played with any of their sinks
InitAnySink ==
    /\ \E t \in Tables : SessionOf(t) /\ sink \in t.sinks
    /\ recording = FALSE
    /\ Start
    /\ NoHand

\* the sessions whose action history and events are examined: heads-up and
\* three seats, with and without ante, a second hand, seats all-in by a blind
RecordedTables == {t \in Tables : t.config.stacks \in {<<6, 6>>, <<7, 3>>, <<1, 5>>, <<2, 1, 7>>}}

InitRecorded ==
    /\ \E t \in RecordedTables : SessionOf(t) /\ sink = ReliableSink
    /\ recording = TRUE
    /\ Start
    /\ NoHand

\* ------------------------------------------------------------ the event sink
\* can the sink complete n more log calls
SinkTakes(n) == sink.reliable \/ sink.left >= n

\* the sink after n log calls were made (the last of them may have raised)
SinkAfter(n) ==
    IF sink.reliable THEN sink
    ELSE [sink EXCEPT !.left = IF @ >= n THEN @ - n ELSE 0]

\* an exception of the sink's log call leaves play_hand
SinkRaises ==
    /\ sink' = SinkAfter(sink.left + 1)
    /\ error' = "OSError"
    /\ pc' = "error"

\* ------------------------------------------------------- start of the hand
\* play_hand: the per-hand reset of every seat, the hand_start event, and
\* the hand's contributions, pot and board
ResetPlayers ==
    /\ pc = "reset"
    /\ players' = [s \in Seats |->
                     reset_for_hand(players[s],
                                    IF config.auto_top_up THEN config.starting_stack
                                    ELSE players[s].stack)]
    /\ start_stack' = [s \in Seats |-> players'[s].stack]
    /\ start_counters' = [s \in Seats |-> players[s].timeouts + players[s].illegal_actions]
    /\ events' = <<>>
    /\ action_history' = <<>>
    /\ IF SinkTakes(1)
       THEN /\ sink' = SinkAfter(1)
            /\ contributions' = [s \in Seats |-> 0]
            /\ pot' = 0
            /\ board_cards' = <<>>
            /\ pc' = "deal_hole"
            /\ UNCHANGED error
       ELSE /\ SinkRaises
            /\ UNCHANGED <<contributions, pot, board_cards>>
    /\ UNCHANGED <<hands_left, hand_cards, hand_value, config, button_seat, current_bet, last_full_raise, street,
                   deck_pos, queue, acted, request, round_result, auto_runout,
                   hand_ranks, payouts, deltas, raises, last_decision,
                   lone_seat, since_full, closed, penalised, recording>>

\* next(deck_iter) after pos cards were taken: a deck without duplicates is
\* the sequence of its cards, and a card is named by its position in it
NextCard(pos) == pos + 1

\* the two passes of _deal_hole_cards from step k on (pass k \div seat_count,
\* offset k % seat_count): the seat left of the button first, one card each
RECURSIVE DealPasses(_, _, _, _)
DealPasses(pl, button, pos, k) ==
    IF k >= 2 * config.seat_count THEN [players |-> pl, deck_pos |-> pos]
    ELSE LET seat == (button + 1 + (k % config.seat_count)) % config.seat_count IN
         DealPasses([pl EXCEPT ![seat].hole_cards = Append(@, NextCard(pos))],
                    button, pos + 1, k + 1)

_deal_hole_cards(pl, button, pos) == DealPasses(pl, button, pos, 0)

\* _deal_hole_cards: two passes, one card per seat and pass, then one
\* deal_hole event per seat
DealHoleCards ==
    /\ UNCHANGED <<recording, action_history, events, start_counters>>
    /\ pc = "deal_hole"
    /\ players' = _deal_hole_cards(players, button_seat, deck_pos).players
    /\ deck_pos' = _deal_hole_cards(players, button_seat, deck_pos).deck_pos
    /\ IF SinkTakes(config.seat_count)
       THEN sink' = SinkAfter(config.seat_count) /\ pc' = "antes" /\ UNCHANGED error
       ELSE SinkRaises
    /\ UNCHANGED <<hands_left, hand_cards, hand_value, config, button_seat, contributions, pot, current_bet,
                   last_full_raise, street, board_cards, queue, acted, request,
                   round_result, auto_runout, hand_ranks, payouts, deltas,
                   raises, last_decision, lone_seat, since_full, closed,
                   penalised, start_stack>>

\* the ante loop from seat offset on, with the sink completing `left` more log
\* calls: [players, contributions, pot, logged, failed]
RECURSIVE AnteLoop(_, _, _, _, _, _)
AnteLoop(offset, pl, contrib, p, left, logged) ==
    IF offset >= config.seat_count
    THEN [players |-> pl, contributions |-> contrib, pot |-> p,
          logged |-> logged, failed |-> FALSE]
    ELSE LET seat == (button_seat + offset) % config.seat_count
             r == _post_ante(pl, contrib, seat, config.ante)
         IN IF r.posted = 0
            THEN AnteLoop(offset + 1, r.players, r.contributions, p, left, logged)
            ELSE IF left = 0
            THEN [players |-> r.players, contributions |-> r.contributions, pot |-> p,
                  logged |-> logged, failed |-> TRUE]
            ELSE AnteLoop(offset + 1, r.players, r.contributions, p + r.posted,
                          left - 1, logged + 1)

\* log calls the sink completes within one action that makes at most n
LogBudget(n) == IF sink.reliable THEN n ELSE Min(n, sink.left)

\* play_hand: antes, when configured
PostAntes ==
    /\ UNCHANGED <<recording, action_history, events, start_counters>>
    /\ pc = "antes"
    /\ LET r == IF config.ante > 0
                THEN AnteLoop(0, players, contributions, pot, LogBudget(config.seat_count), 0)
                ELSE [players |-> players, contributions |-> contributions, pot |-> pot,
                      logged |-> 0, failed |-> FALSE]
       IN /\ players' = r.players
          /\ contributions' = r.contributions
          /\ pot' = r.pot
          /\ IF r.failed THEN SinkRaises
             ELSE sink' = SinkAfter(r.logged) /\ pc' = "blinds" /\ UNCHANGED error
    /\ UNCHANGED <<hands_left, hand_cards, hand_value, config, button_seat, current_bet, last_full_raise, street,
                   board_cards, deck_pos, queue, acted, request, round_result,
                   auto_runout, hand_ranks, payouts, deltas, raises,
                   last_decision, lone_seat, since_full, closed, penalised, start_stack>>

MaxBet(pl) == CHOOSE m \in {pl[s].bet : s \in Seats} : \A s \in Seats : pl[s].bet <= m

\* play_hand: small and big blind (one blind event for each blind posted),
\* then the preflop current_bet and increment
PostBlinds ==
    /\ UNCHANGED <<recording, action_history, events, start_counters>>
    /\ pc = "blinds"
    /\ LET b == _blind_seats(button_seat)
           r1 == _post_blind(players, contributions, b.small, config.small_blind)
           r2 == _post_blind(r1.players, r1.contributions, b.big, config.big_blind)
           n1 == IF r1.posted > 0 THEN 1 ELSE 0
           n2 == IF r2.posted > 0 THEN 1 ELSE 0
       IN IF ~SinkTakes(n1)
          THEN /\ players' = r1.players
               /\ contributions' = r1.contributions
               /\ SinkRaises
               /\ UNCHANGED <<pot, current_bet, last_full_raise, street>>
          ELSE IF ~SinkTakes(n1 + n2)
          THEN /\ players' = r2.players
               /\ contributions' = r2.contributions
               /\ pot' = pot + r1.posted
               /\ SinkRaises
               /\ UNCHANGED <<current_bet, last_full_raise, street>>
          ELSE /\ players' = r2.players
               /\ contributions' = r2.contributions
               /\ pot' = pot + r1.posted + r2.posted
               /\ current_bet' = MaxBet(r2.players)
               /\ last_full_raise' = config.big_blind
               /\ street' = 1
               /\ sink' = SinkAfter(n1 + n2)
               /\ pc' = "round_begin"
               /\ UNCHANGED error
    /\ UNCHANGED <<hands_left, hand_cards, hand_value, config, button_seat, board_cards, deck_pos, queue, acted,
                   request, round_result, auto_runout, hand_ranks, payouts, deltas,
                   raises, last_decision, lone_seat, since_full, closed,
                   penalised, start_stack>>

\* ------------------------------------------------------ betting helpers
NonFolded(pl) == {s \in Seats : ~pl[s].folded}

_players_remaining(pl) == NonFolded(pl)

\* _all_non_folded_all_in never reporting the all-in condition
_all_non_folded_all_in_never(pl) == FALSE

_all_non_folded_all_in(pl) ==
    /\ NonFolded(pl) # {}
    /\ \A s \in NonFolded(pl) : pl[s].all_in

IsActive(pl, s) == ~pl[s].folded /\ ~pl[s].all_in

_active_order(order, pl) == SelectSeq(order, LAMBDA s : IsActive(pl, s))

IndexOf(order, seat) == CHOOSE i \in 1..Len(order) : order[i] = seat

_rotation_after(order, seat) ==
    IF seat \notin SeqToSet(order) THEN order
    ELSE LET idx == IndexOf(order, seat)
         IN SubSeq(order, idx + 1, Len(order)) \o SubSeq(order, 1, idx - 1)

\* a completion test that never succeeds
_betting_round_complete_never(cb, pl) == FALSE

_betting_round_complete(cb, pl) ==
    LET contenders == {s \in Seats : IsActive(pl, s)} IN
    IF Cardinality(contenders) <= 1 THEN TRUE
    ELSE \A s \in contenders : pl[s].bet = cb

\* _min_raise_target with the big blind as the only raise increment
_min_raise_target_big_blind(cb, lfr) ==
    IF cb = 0 THEN Max(config.big_blind, 1)
    ELSE cb + config.big_blind

_min_raise_target(cb, lfr) ==
    IF cb = 0 THEN Max(config.big_blind, 1)
    ELSE cb + Max(lfr, config.big_blind)

\* _legal_actions without the may_raise test
_legal_actions_any_raise(player, to_call, may_raise) ==
    {"fold"}
    \cup (IF to_call = 0 THEN {"check"}
          ELSE IF player.stack > 0 THEN {"call"} ELSE {})
    \cup (IF player.stack > 0 /\ player.bet + player.stack > player.bet + to_call
          THEN {"raise_to"} ELSE {})

_legal_actions(player, to_call, may_raise) ==
    {"fold"}
    \cup (IF to_call = 0 THEN {"check"}
          ELSE IF player.stack > 0 THEN {"call"} ELSE {})
    \cup (IF may_raise /\ player.stack > 0
             /\ player.bet + player.stack > player.bet + to_call
          THEN {"raise_to"} ELSE {})

NoAmount == [tag |-> "none", val |-> 0]
IntAmount(v) == [tag |-> "int", val |-> v]
FloatAmount == [tag |-> "float", val |-> 0]
ActionResponse(a, amt) == [type |-> "ActionResponse", action |-> a, amount |-> amt]

\* "fold" is the first element of every legal_actions list
FirstLegal(legal_actions) == "fold"

\* _timeout_fallback preferring call to fold when there is something to call
_timeout_fallback_call(to_call, legal_actions) ==
    IF config.timeout_fallback_policy = FoldPolicy /\ "fold" \in legal_actions
    THEN ActionResponse("fold", NoAmount)
    ELSE IF to_call = 0 /\ "check" \in legal_actions THEN ActionResponse("check", NoAmount)
    ELSE IF "call" \in legal_actions THEN ActionResponse("call", NoAmount)
    ELSE ActionResponse("fold", NoAmount)

_timeout_fallback(to_call, legal_actions) ==
    IF config.timeout_fallback_policy = FoldPolicy /\ "fold" \in legal_actions
    THEN ActionResponse("fold", NoAmount)
    ELSE IF to_call = 0 /\ "check" \in legal_actions THEN ActionResponse("check", NoAmount)
    ELSE IF "fold" \in legal_actions THEN ActionResponse("fold", NoAmount)
    ELSE IF "call" \in legal_actions THEN ActionResponse("call", NoAmount)
    ELSE ActionResponse(FirstLegal(legal_actions), NoAmount)

\* _illegal_fallback that checks whatever there is to call
_illegal_fallback_check(to_call, legal_actions) ==
    IF config.illegal_action_fallback_policy = FoldPolicy /\ "fold" \in legal_actions
    THEN ActionResponse("fold", NoAmount)
    ELSE ActionResponse("check", NoAmount)

_illegal_fallback(to_call, legal_actions) ==
    IF config.illegal_action_fallback_policy = FoldPolicy /\ "fold" \in legal_actions
    THEN ActionResponse("fold", NoAmount)
    ELSE IF to_call = 0 /\ "check" \in legal_actions THEN ActionResponse("check", NoAmount)
    ELSE IF "fold" \in legal_actions THEN ActionResponse("fold", NoAmount)
    ELSE IF "call" \in legal_actions THEN ActionResponse("call", NoAmount)
    ELSE ActionResponse(FirstLegal(legal_actions), NoAmount)

\* _normalize_action without the two tests against the minimum raise target
_normalize_action_any_size(player, response, legal_actions, to_call, cb, lfr) ==
    LET fallback == [response |-> _illegal_fallback(to_call, legal_actions), penalty |-> TRUE]
        desired == response.amount
        call_total == player.bet + to_call
        max_total == player.bet + player.stack
    IN IF response.action \notin legal_actions THEN fallback
       ELSE IF response.action # "raise_to" THEN [response |-> response, penalty |-> FALSE]
       ELSE IF desired.tag # "int" THEN fallback
       ELSE IF max_total <= call_total \/ desired.val <= call_total THEN fallback
       ELSE [response |-> ActionResponse("raise_to", IntAmount(Min(desired.val, max_total))),
             penalty |-> FALSE]

\* [response, penalty]: the response to apply and whether it was penalised
_normalize_action(player, response, legal_actions, to_call, cb, lfr) ==
    LET fallback == [response |-> _illegal_fallback(to_call, legal_actions), penalty |-> TRUE]
        desired == response.amount
        call_total == player.bet + to_call
        max_total == player.bet + player.stack
        min_raise_target == _min_raise_target(cb, lfr)
    IN IF response.action \notin legal_actions THEN fallback
       ELSE IF response.action # "raise_to" THEN [response |-> response, penalty |-> FALSE]
       ELSE IF desired.tag # "int" THEN fallback
       ELSE IF max_total <= call_total \/ desired.val <= call_total THEN fallback
       ELSE IF max_total >= min_raise_target /\ desired.val < min_raise_target THEN fallback
       ELSE IF max_total < min_raise_target /\ desired.val # max_total THEN fallback
       ELSE [response |-> ActionResponse("raise_to", IntAmount(Min(desired.val, max_total))),
             penalty |-> FALSE]

_apply_fold(pl, seat) == [pl EXCEPT ![seat].folded = TRUE]

\* _apply_call without the update of contributions
_apply_call_uncounted(pl, contrib, seat, to_call) ==
    LET amount == Min(to_call, pl[seat].stack) IN
    [players |-> [pl EXCEPT ![seat].stack = @ - amount,
                            ![seat].bet = @ + amount,
                            ![seat].all_in = (pl[seat].all_in \/ pl[seat].stack - amount = 0)],
     contributions |-> contrib,
     added |-> amount]

\* [players, contributions, added]
_apply_call(pl, contrib, seat, to_call) ==
    LET amount == Min(to_call, pl[seat].stack) IN
    [players |-> [pl EXCEPT ![seat].stack = @ - amount,
                            ![seat].bet = @ + amount,
                            ![seat].all_in = (pl[seat].all_in \/ pl[seat].stack - amount = 0)],
     contributions |-> [contrib EXCEPT ![seat] = @ + amount],
     added |-> amount]

\* the full-raise test of _apply_raise_to
IsFullRaise(desired, cb, lfr) ==
    IF cb = 0 THEN desired >= config.big_blind
    ELSE desired > cb /\ desired >= cb + lfr

\* _apply_raise_to returning the current_bet it was given
_apply_raise_to_stale_bet(pl, contrib, seat, amount, to_call, cb, lfr) ==
    LET max_total == pl[seat].bet + pl[seat].stack
        desired == IF amount > max_total THEN max_total ELSE amount
        added == desired - pl[seat].bet
        full == IsFullRaise(desired, cb, lfr)
    IN [players |-> [pl EXCEPT ![seat].stack = @ - added,
                               ![seat].bet = desired,
                               ![seat].all_in = (pl[seat].all_in \/ pl[seat].stack - added = 0)],
        contributions |-> [contrib EXCEPT ![seat] = @ + added],
        added |-> added,
        current_bet |-> cb,
        last_full_raise |-> IF full THEN (IF cb = 0 THEN desired ELSE desired - cb) ELSE lfr,
        is_full_raise |-> full]

\* [players, contributions, added, current_bet, last_full_raise, is_full_raise]
_apply_raise_to(pl, contrib, seat, amount, to_call, cb, lfr) ==
    LET max_total == pl[seat].bet + pl[seat].stack
        desired == IF amount > max_total THEN max_total ELSE amount
        added == desired - pl[seat].bet
        full == IsFullRaise(desired, cb, lfr)
    IN [players |-> [pl EXCEPT ![seat].stack = @ - added,
                               ![seat].bet = desired,
                               ![seat].all_in = (pl[seat].all_in \/ pl[seat].stack - added = 0)],
        contributions |-> [contrib EXCEPT ![seat] = @ + added],
        added |-> added,
        current_bet |-> IF cb = 0 THEN desired ELSE Max(cb, desired),
        last_full_raise |-> IF full THEN (IF cb = 0 THEN desired ELSE desired - cb) ELSE lfr,
        is_full_raise |-> full]

Order == compute_order(STREETS[street], config.seat_count, button_seat)

\* the need-action test without the acted flag
NeedsActionOwesOnly(pl, act, cb, s) == (cb - pl[s].bet) > 0

NeedsAction(pl, act, cb, s) == (cb - pl[s].bet) > 0 \/ ~act[s]

\* the "if not queue" refill at the end of a loop iteration:
\* [brk, queue] where brk says the loop was left by break
Refill(pl, act, cb) ==
    LET active_order == _active_order(Order, pl)
        remaining == SelectSeq(active_order, LAMBDA s : NeedsAction(pl, act, cb, s))
    IN IF remaining # <<>> THEN [brk |-> FALSE, queue |-> remaining]
       ELSE IF _betting_round_complete(cb, pl) THEN [brk |-> TRUE, queue |-> <<>>]
       ELSE [brk |-> FALSE, queue |-> active_order]

\* the acted dict rebuilt over the active order: absent keys read as False
Rebuild(act, pl) == [s \in Seats |-> IsActive(pl, s) /\ act[s]]

\* ---------------------------------------------------------- betting round
\* the betting round returns to play_hand with everyone_all_in = eai
ReturnFromRound(eai) ==
    /\ round_result' = eai
    /\ queue' = <<>>
    /\ request' = NoRequest
    /\ pc' = "after_round"

\* _betting_round up to the loop: early returns, acted flags and queue
BeginRound ==
    /\ UNCHANGED <<recording, action_history, events, start_counters>>
    /\ pc = "round_begin"
    /\ LET active_order == _active_order(Order, players) IN
       IF _all_non_folded_all_in(players)
       THEN ReturnFromRound(TRUE) /\ UNCHANGED acted
       ELSE IF active_order = <<>>
       THEN ReturnFromRound(_all_non_folded_all_in(players)) /\ UNCHANGED acted
       ELSE /\ acted' = [s \in Seats |-> FALSE]
            /\ queue' = active_order
            /\ pc' = "loop"
            /\ UNCHANGED <<round_result, request>>
    /\ since_full' = [s \in Seats |-> FALSE]
    /\ closed' = [s \in Seats |-> FALSE]
    /\ last_decision' = NoDecision
    /\ UNCHANGED <<sink, penalised, start_stack, hands_left, hand_cards, hand_value, config, button_seat, players, contributions, pot, current_bet,
                   last_full_raise, street, board_cards, deck_pos, auto_runout,
                   hand_ranks, payouts, deltas, error, raises, lone_seat>>

\* one loop iteration that ends in "continue": the popped seat is folded or
\* all-in, or it has matched the bet and has acted
ContinueLoop ==
    /\ UNCHANGED <<recording, action_history, events, start_counters>>
    /\ pc = "loop"
    /\ queue # <<>>
    /\ IF ~IsActive(players, Head(queue))
       THEN /\ acted' = Rebuild(acted, players)
            /\ IF Tail(queue) = <<>>
               THEN ReturnFromRound(_all_non_folded_all_in(players))
               ELSE queue' = Tail(queue) /\ UNCHANGED <<round_result, request, pc>>
       ELSE /\ ~NeedsAction(players, acted, current_bet, Head(queue))
            /\ UNCHANGED acted
            /\ IF Tail(queue) # <<>>
               THEN queue' = Tail(queue) /\ UNCHANGED <<round_result, request, pc>>
               ELSE LET r == Refill(players, acted, current_bet) IN
                    IF r.brk THEN ReturnFromRound(_all_non_folded_all_in(players))
                    ELSE queue' = r.queue /\ UNCHANGED <<round_result, request, pc>>
    /\ last_decision' = NoDecision
    /\ UNCHANGED <<sink, penalised, start_stack, hands_left, hand_cards, hand_value, config, button_seat, players, contributions, pot, current_bet,
                   last_full_raise, street, board_cards, deck_pos, auto_runout,
                   hand_ranks, payouts, deltas, error, raises, lone_seat,
                   since_full, closed>>

\* one loop iteration up to the agent call: the ActionRequest is built
RequestAction ==
    /\ UNCHANGED <<recording, action_history, events, start_counters>>
    /\ pc = "loop"
    /\ queue # <<>>
    /\ IsActive(players, Head(queue))
    /\ NeedsAction(players, acted, current_bet, Head(queue))
    /\ LET seat == Head(queue)
           to_call == current_bet - players[seat].bet
           min_raise_to == _min_raise_target(current_bet, last_full_raise)
           allow_raise == ~acted[seat]
       IN request' = [seat |-> seat, to_call |-> to_call, min_raise_to |-> min_raise_to,
                      legal_actions |-> _legal_actions(players[seat], to_call, allow_raise),
                      action_history |-> action_history]
    /\ queue' = Tail(queue)
    /\ pc' = "await"
    /\ last_decision' = NoDecision
    /\ UNCHANGED <<sink, penalised, start_stack, hands_left, hand_cards, hand_value, config, button_seat, players, contributions, pot, current_bet,
                   last_full_raise, street, board_cards, deck_pos, acted,
                   round_result, auto_runout, hand_ranks, payouts, deltas, error,
                   raises, lone_seat, since_full, closed>>

\* ------------------------------------------------------------ agent inputs
NotAResponse == [type |-> "other", action |-> "", amount |-> NoAmount]

\* what an agent may hand back for a request: any tag, any amount, any type
AgentReturns(req, player) ==
    LET call_total == player.bet + req.to_call
        max_total == player.bet + player.stack
        targets == {call_total, req.min_raise_to - 1, req.min_raise_to,
                    max_total, max_total + 1}
    IN {NotAResponse}
       \cup {ActionResponse(a, NoAmount) : a \in {"fold", "check", "call", "bet"}}
       \cup {ActionResponse("raise_to", amt) :
                amt \in {NoAmount, FloatAmount} \cup {IntAmount(v) : v \in targets}}

\* <<measured wall-clock time of a call, self-reported wait_time_ms>>
Timings == {<<0, 0>>, <<Timebank + 1, 0>>, <<Timebank + 1, 1>>}

\* _invoke_agent without the deduction of the reported wait
_invoke_agent_clock_only(measured, wait_time_ms) == measured

\* _invoke_agent: elapsed_ms
_invoke_agent(measured, wait_time_ms) == measured - wait_time_ms

TotalPenalties(pl) ==
    SumOver([s \in Seats |-> pl[s].timeouts + pl[s].illegal_actions], Seats)

\* -------------------------------------------------------------- decisions
\* the branch of the loop body that applies the normalised response:
\* [players, contributions, pot, current_bet, last_full_raise, acted, queue,
\*  is_full_raise, raised] where raised is the exception raised, "" if none
ApplyResponse(pl, response, seat, to_call) ==
    LET base == [players |-> pl, contributions |-> contributions, pot |-> pot,
                 current_bet |-> current_bet, last_full_raise |-> last_full_raise,
                 acted |-> acted, queue |-> queue, is_full_raise |-> FALSE,
                 raised |-> ""]
    IN IF response.action = "fold" THEN
           LET p2 == _apply_fold(pl, seat) IN
           [base EXCEPT !.players = p2,
                        !.acted = Rebuild(acted, p2),
                        !.queue = _active_order(Order, p2)]
       ELSE IF response.action = "check" THEN
           IF to_call # 0 THEN [base EXCEPT !.raised = "IllegalActionError"]
           ELSE [base EXCEPT !.acted = [acted EXCEPT ![seat] = TRUE]]
       ELSE IF response.action = "call" THEN
           LET r == _apply_call(pl, contributions, seat, to_call) IN
           [base EXCEPT !.players = r.players,
                        !.contributions = r.contributions,
                        !.pot = pot + r.added,
                        !.acted = [acted EXCEPT ![seat] = TRUE]]
       ELSE IF response.action = "raise_to" THEN
           IF response.amount.tag = "none" THEN [base EXCEPT !.raised = "IllegalActionError"]
           ELSE LET r == _apply_raise_to(pl, contributions, seat, response.amount.val,
                                         to_call, current_bet, last_full_raise)
                    active_order == _active_order(Order, r.players)
                    a1 == [acted EXCEPT ![seat] = TRUE]
                IN [base EXCEPT
                      !.players = r.players,
                      !.contributions = r.contributions,
                      !.pot = pot + r.added,
                      !.current_bet = r.current_bet,
                      !.last_full_raise = r.last_full_raise,
                      !.is_full_raise = r.is_full_raise,
                      !.acted = IF r.is_full_raise /\ ~r.players[seat].all_in
                                THEN [s \in Seats |-> IsActive(r.players, s) /\ s = seat]
                                ELSE [s \in Seats |-> IsActive(r.players, s)
                                                      /\ (s = seat \/ a1[s])],
                      !.queue = _rotation_after(active_order, seat)]
       ELSE [base EXCEPT !.raised = "IllegalActionError"]

\* acted-since-the-last-full-raise, as the raise rule defines it
SinceFullAfter(a, seat) ==
    IF a.is_full_raise THEN [s \in Seats |-> s = seat]
    ELSE [since_full EXCEPT ![seat] = TRUE]

\* seats that had acted and now face a raise that was not a full raise
ClosedAfter(a, response, seat) ==
    IF response.action = "raise_to" /\ a.raised = ""
    THEN IF a.is_full_raise THEN [s \in Seats |-> FALSE]
         ELSE [s \in Seats |-> s # seat /\ IsActive(a.players, s)
                               /\ (closed[s] \/ acted[s])]
    ELSE [closed EXCEPT ![seat] = FALSE]

\* the record kept of a decision: the request, the agent's raw answer, the
\* clock reading and the wait the answer reports, the action applied, and
\* the round's state before the action
Decision(raw, timing, timed_out, penalty, applied, is_full_raise) ==
    [kind |-> "decision", seat |-> request.seat, request |-> request, raw |-> raw,
     measured |-> timing[1], wait_time_ms |-> timing[2],
     timed_out |-> timed_out, penalty |-> penalty, applied |-> applied,
     is_full_raise |-> is_full_raise,
     prev |-> [current_bet |-> current_bet, last_full_raise |-> last_full_raise,
               acted |-> acted, player |-> players[request.seat]]]

\* a list of history entries or events as the state keeps it
Kept(list) == IF recording THEN list ELSE <<>>

\* a history entry that leaves the amount out
ActionHistoryEntryNoAmount(seat, response, st, to_call, min_raise_to) ==
    [seat_id |-> seat, action |-> response.action, amount |-> NoAmount,
     street |-> st, to_call |-> to_call, min_raise_to |-> min_raise_to]

\* the ActionHistoryEntry appended after the action was applied
ActionHistoryEntry(seat, response, st, to_call, min_raise_to) ==
    [seat_id |-> seat, action |-> response.action, amount |-> response.amount,
     street |-> st, to_call |-> to_call, min_raise_to |-> min_raise_to]

\* the payload of a penalty event (without hand_id, elapsed_ms and attempted)
PenaltyEvent(seat, kind, fallback) ==
    [event |-> "penalty", seat |-> seat, kind |-> kind, fallback |-> fallback]

\* the payload of an action event (without hand_id and elapsed_ms)
ActionEvent(seat, response, to_call, min_raise_to, player, st, pot_delta, new_pot) ==
    [event |-> "action", seat |-> seat, action |-> response.action,
     amount |-> response.amount, to_call |-> to_call, min_raise_to |-> min_raise_to,
     stack_after |-> player.stack, bet |-> player.bet, street |-> st,
     pot_delta |-> pot_delta, pot |-> new_pot]

\* the decisions classified so far, after one more of seat
PenalisedAfter(seat, timed_out, illegal) ==
    [penalised EXCEPT ![seat].timeouts = @ + (IF timed_out THEN 1 ELSE 0),
                      ![seat].illegal_actions = @ + (IF illegal THEN 1 ELSE 0)]

\* the timeout test leaving the agent's answer in place
AnswerKept(raw, timed_out, to_call, legal_actions) == raw

\* the response after the timeout test: the timeout fallback replaces the
\* agent's answer when the call took longer than the timebank
AfterTimeoutTest(raw, timed_out, to_call, legal_actions) ==
    IF timed_out THEN _timeout_fallback(to_call, legal_actions) ELSE raw

\* the agent answers the pending request; the rest of the loop body runs
Respond ==
    /\ pc = "await"
    /\ \E raw \in AgentReturns(request, players[request.seat]), timing \in Timings :
        LET seat == request.seat
            measured == timing[1]
            wait_time_ms == timing[2]
            to_call == request.to_call
            legal_actions == request.legal_actions
        IN IF raw.type # "ActionResponse"
           THEN \* AgentInterface.act raises TypeError
                /\ measured = 0 /\ wait_time_ms = 0
                /\ error' = "TypeError"
                /\ pc' = "error"
                /\ last_decision' = Decision(raw, timing, FALSE, "none", raw, FALSE)
                /\ UNCHANGED <<players, contributions, pot, current_bet,
                               last_full_raise, acted, queue, request, round_result,
                               raises, lone_seat, since_full, closed, sink, penalised,
                               action_history, events>>
           ELSE
            LET elapsed_ms == _invoke_agent(measured, wait_time_ms)
                timed_out == elapsed_ms > config.time_per_decision_ms
                r1 == AfterTimeoutTest(raw, timed_out, to_call, legal_actions)
                p1 == IF timed_out
                      THEN [players EXCEPT ![seat].timeouts = @ + 1]
                      ELSE players
                norm == _normalize_action(p1[seat], r1, legal_actions, to_call,
                                          current_bet, last_full_raise)
                p2 == IF norm.penalty
                      THEN [p1 EXCEPT ![seat].illegal_actions = @ + 1]
                      ELSE p1
                response == norm.response
                a == ApplyResponse(p2, response, seat, to_call)
                \* penalty events logged before the action is applied
                penalties == (IF timed_out
                              THEN <<PenaltyEvent(seat, "timeout", r1.action)>>
                              ELSE <<>>)
                             \o (IF norm.penalty
                                 THEN <<PenaltyEvent(seat, "illegal_action", response.action)>>
                                 ELSE <<>>)
                penalty_events == Len(penalties)
                entry == ActionHistoryEntry(seat, response, STREETS[street], to_call,
                                            request.min_raise_to)
                ld == Decision(raw, timing, timed_out,
                               IF timed_out THEN "timeout"
                               ELSE IF norm.penalty THEN "illegal_action" ELSE "none",
                               response, a.is_full_raise)
            IN /\ (timed_out \/ norm.penalty) => TotalPenalties(players) < MaxPenalties
               /\ (response.action = "raise_to") => raises < MaxRaises
               /\ last_decision' = ld
               /\ penalised' = PenalisedAfter(seat, timed_out, norm.penalty)
               /\ IF ~SinkTakes(penalty_events)
                  THEN \* the penalty event could not be logged
                       /\ players' = p2
                       /\ SinkRaises
                       /\ events' = Kept(events \o SubSeq(penalties, 1, sink.left))
                       /\ UNCHANGED action_history
                       /\ UNCHANGED <<contributions, pot, current_bet, last_full_raise,
                                      acted, queue, request, round_result, raises,
                                      lone_seat, since_full, closed>>
                  ELSE IF a.raised # ""
                  THEN /\ players' = a.players
                       /\ error' = a.raised
                       /\ pc' = "error"
                       /\ sink' = SinkAfter(penalty_events)
                       /\ events' = Kept(events \o penalties)
                       /\ UNCHANGED action_history
                       /\ UNCHANGED <<contributions, pot, current_bet, last_full_raise,
                                      acted, queue, request, round_result, raises,
                                      lone_seat, since_full, closed>>
                  ELSE IF ~SinkTakes(penalty_events + 1)
                  THEN \* the action was applied, its action event could not be logged
                       /\ players' = a.players
                       /\ contributions' = a.contributions
                       /\ pot' = a.pot
                       /\ current_bet' = a.current_bet
                       /\ last_full_raise' = a.last_full_raise
                       /\ acted' = a.acted
                       /\ queue' = a.queue
                       /\ SinkRaises
                       /\ events' = Kept(events \o penalties)
                       /\ action_history' = Kept(Append(action_history, entry))
                       /\ UNCHANGED <<request, round_result, raises, lone_seat,
                                      since_full, closed>>
                  ELSE
                   /\ players' = a.players
                   /\ sink' = SinkAfter(penalty_events + 1)
                   /\ events' = Kept(events \o penalties
                                     \o <<ActionEvent(seat, response, to_call,
                                                       request.min_raise_to, a.players[seat],
                                                       STREETS[street], a.pot - pot, a.pot)>>)
                   /\ action_history' = Kept(Append(action_history, entry))
                   /\ contributions' = a.contributions
                   /\ pot' = a.pot
                   /\ current_bet' = a.current_bet
                   /\ last_full_raise' = a.last_full_raise
                   /\ acted' = a.acted
                   /\ raises' = IF response.action = "raise_to" THEN raises + 1 ELSE raises
                   /\ lone_seat' = IF lone_seat = {} /\ Cardinality(NonFolded(a.players)) = 1
                                   THEN NonFolded(a.players)
                                   ELSE lone_seat
                   /\ since_full' = IF response.action = "fold" THEN since_full
                                    ELSE SinceFullAfter(a, seat)
                   /\ closed' = ClosedAfter(a, response, seat)
                   /\ error' = error
                   /\ IF _all_non_folded_all_in(a.players)
                      THEN ReturnFromRound(TRUE)
                      ELSE IF _betting_round_complete(a.current_bet, a.players)
                              /\ a.queue = <<>>
                      THEN ReturnFromRound(FALSE)
                      ELSE IF a.queue = <<>>
                      THEN LET r == Refill(a.players, a.acted, a.current_bet) IN
                           IF r.brk THEN ReturnFromRound(FALSE)
                           ELSE /\ queue' = r.queue
                                /\ request' = NoRequest
                                /\ pc' = "loop"
                                /\ UNCHANGED round_result
                      ELSE /\ queue' = a.queue
                           /\ request' = NoRequest
                           /\ pc' = "loop"
                           /\ UNCHANGED round_result
    /\ UNCHANGED <<hands_left, hand_cards, hand_value, config, button_seat, street, board_cards, deck_pos, auto_runout,
                   hand_ranks, payouts, deltas, start_stack, start_counters, recording>>

\* ------------------------------------------------------------- side pots
MinOf(S) == CHOOSE m \in S : \A x \in S : m <= x

RECURSIVE SortedSeq(_)
SortedSeq(S) == IF S = {} THEN <<>> ELSE <<MinOf(S)>> \o SortedSeq(S \ {MinOf(S)})

\* the side pots with "previous" never advanced: every tier counts from zero
RECURSIVE PotsFromZero(_, _, _, _)
PotsFromZero(levels, previous, pl, contrib) ==
    IF levels = <<>> THEN <<>>
    ELSE LET amount == Head(levels)
             contributors == {s \in Seats : contrib[s] >= amount}
             size == (amount - previous) * Cardinality(contributors)
             eligible == {s \in contributors : ~pl[s].folded}
         IN <<[size |-> size, eligible_seats |-> eligible]>>
            \o PotsFromZero(Tail(levels), previous, pl, contrib)

RECURSIVE PotsFrom(_, _, _, _)
PotsFrom(levels, previous, pl, contrib) ==
    IF levels = <<>> THEN <<>>
    ELSE LET amount == Head(levels)
             contributors == {s \in Seats : contrib[s] >= amount}
             size == (amount - previous) * Cardinality(contributors)
             eligible == {s \in contributors : ~pl[s].folded}
         IN <<[size |-> size, eligible_seats |-> eligible]>>
            \o PotsFrom(Tail(levels), amount, pl, contrib)

_build_side_pots(pl, contrib) ==
    PotsFrom(SortedSeq({contrib[s] : s \in Seats} \ {0}), 0, pl, contrib)

\* the odd-chip order started at the button itself
_odd_chip_order_from_button(button) ==
    [i \in 1..config.seat_count |-> (button + i - 1) % config.seat_count]

_odd_chip_distribution_order(button) ==
    [i \in 1..config.seat_count |-> (button + i) % config.seat_count]

RECURSIVE OddChips(_, _, _, _, _)
OddChips(pay, order, i, winners, remainder) ==
    IF remainder = 0 \/ i > Len(order) THEN pay
    ELSE IF order[i] \in winners
    THEN OddChips([pay EXCEPT ![order[i]] = @ + 1], order, i + 1, winners, remainder - 1)
    ELSE OddChips(pay, order, i + 1, winners, remainder)

Winners(p, hr) ==
    {s \in p.eligible_seats : \A t \in p.eligible_seats : hr[s] >= hr[t]}

\* the body of the loop over the pots: one pot added to the payouts
PayPot(pay, p, hr, odd_chip_order) ==
    IF p.eligible_seats = {} THEN pay
    ELSE LET winners == Winners(p, hr)
             share == p.size \div Cardinality(winners)
             remainder == p.size % Cardinality(winners)
             pay1 == [s \in Seats |-> IF s \in winners THEN pay[s] + share ELSE pay[s]]
         IN OddChips(pay1, odd_chip_order, 1, winners, remainder)

RECURSIVE PayPots(_, _, _, _)
PayPots(pay, pots, hr, odd_chip_order) ==
    IF pots = <<>> THEN pay
    ELSE PayPots(PayPot(pay, Head(pots), hr, odd_chip_order), Tail(pots), hr, odd_chip_order)

_resolve_showdown(pl, contrib, button, hr) ==
    PayPots([s \in Seats |-> 0], _build_side_pots(pl, contrib), hr,
            _odd_chip_distribution_order(button))

\* ---------------------------------------------------- streets and showdown
\* a Python list compared with an int by == : never equal
PyListEqualsInt(list, n) == FALSE

\* payouts = {winner: sum(contributions.values())}
SolePayout(winner) ==
    [s \in Seats |-> IF s = winner THEN SumOver(contributions, Seats) ELSE 0]

\* _announce_showdown (the showdown event), _apply_payouts (the stacks, then
\* the hand_end event) and the return of play_hand
ApplyPayouts(pay) ==
    IF ~SinkTakes(1)
    THEN SinkRaises /\ UNCHANGED <<players, payouts, deltas>>
    ELSE /\ payouts' = pay
         /\ players' = [s \in Seats |-> [players[s] EXCEPT !.stack = @ + pay[s]]]
         /\ IF ~SinkTakes(2)
            THEN SinkRaises /\ UNCHANGED deltas
            ELSE /\ deltas' = [s \in Seats |-> pay[s] - contributions[s]]
                 /\ sink' = SinkAfter(2)
                 /\ pc' = "done"
                 /\ UNCHANGED error

\* play_hand after a betting round returned: early return, run-out decision,
\* end of the loop over the streets
AfterRound ==
    /\ UNCHANGED <<recording, action_history, events, start_counters>>
    /\ pc = "after_round"
    /\ IF PyListEqualsInt(_players_remaining(players), 1)
       THEN /\ ApplyPayouts(SolePayout(CHOOSE s \in Seats : ~players[s].folded))
            /\ UNCHANGED auto_runout
       ELSE LET runout == round_result /\ config.runout_when_all_in IN
            /\ auto_runout' = runout
            /\ pc' = IF runout THEN "run_out"
                     ELSE IF street = 4 THEN "showdown" ELSE "deal"
            /\ UNCHANGED <<players, payouts, deltas, sink, error>>
    /\ last_decision' = NoDecision
    /\ UNCHANGED <<penalised, start_stack, hands_left, hand_cards, hand_value, config, button_seat, contributions, pot, current_bet,
                   last_full_raise, street, board_cards, deck_pos, queue, acted,
                   request, round_result, hand_ranks, raises, lone_seat,
                   since_full, closed>>

\* _deal_board without the burn card
_deal_board_no_burn(st, board, pos) ==
    LET n == IF st = "flop" THEN 3 ELSE 1 IN
    [board_cards |-> board \o [i \in 1..n |-> NextCard(pos + i - 1)],
     deck_pos |-> pos + n]

\* _deal_board up to its log call: one card is taken and dropped (the burn),
\* then three cards (flop) or one are taken and appended to the board
_deal_board(st, board, pos) ==
    LET n == IF st = "flop" THEN 3 ELSE 1 IN
    [board_cards |-> board \o [i \in 1..n |-> NextCard(pos + i)],
     deck_pos |-> pos + 1 + n]

\* the loop over flop, turn, river: _deal_board (with its street_transition
\* event), _reset_bets, bet reset
DealStreet ==
    /\ UNCHANGED <<recording, action_history, events, start_counters>>
    /\ pc = "deal"
    /\ street' = street + 1
    /\ deck_pos' = _deal_board(STREETS[street + 1], board_cards, deck_pos).deck_pos
    /\ board_cards' = _deal_board(STREETS[street + 1], board_cards, deck_pos).board_cards
    /\ IF SinkTakes(1)
       THEN /\ players' = [s \in Seats |-> [players[s] EXCEPT !.bet = 0]]
            /\ current_bet' = 0
            /\ last_full_raise' = 0
            /\ sink' = SinkAfter(1)
            /\ pc' = "round_begin"
            /\ UNCHANGED error
       ELSE /\ SinkRaises
            /\ UNCHANGED <<players, current_bet, last_full_raise>>
    /\ UNCHANGED <<hands_left, hand_cards, hand_value, config, button_seat, contributions, pot, queue, acted, request,
                   round_result, auto_runout, hand_ranks, payouts, deltas,
                   raises, last_decision, lone_seat, since_full, closed,
                   penalised, start_stack>>

\* _deal_board calls _run_out_board makes to complete a board of b cards
RunOutDeals(b) == IF b = 0 THEN 3 ELSE IF b = 3 THEN 2 ELSE IF b = 4 THEN 1 ELSE 0

\* _run_out_board stopped after at most m calls of _deal_board: the board
\* and the deck position it leaves
RECURSIVE _run_out_board(_, _, _)
_run_out_board(board, pos, m) ==
    IF m = 0 \/ Len(board) >= 5 THEN [board_cards |-> board, deck_pos |-> pos]
    ELSE LET st == IF Len(board) = 0 THEN "flop"
                   ELSE IF Len(board) = 3 THEN "turn" ELSE "river"
             d == _deal_board(st, board, pos)
         IN _run_out_board(d.board_cards, d.deck_pos, m - 1)

\* _run_out_board: the missing streets are dealt without betting, one
\* street_transition event each
RunOutBoard ==
    /\ UNCHANGED <<recording, action_history, events, start_counters>>
    /\ pc = "run_out"
    /\ LET deals == RunOutDeals(Len(board_cards)) IN
       IF SinkTakes(deals)
       THEN /\ board_cards' = _run_out_board(board_cards, deck_pos, deals).board_cards
            /\ deck_pos' = _run_out_board(board_cards, deck_pos, deals).deck_pos
            /\ sink' = SinkAfter(deals)
            /\ pc' = "showdown"
            /\ UNCHANGED error
       ELSE \* the call whose street_transition event fails has dealt its cards
            /\ board_cards' = _run_out_board(board_cards, deck_pos, sink.left + 1).board_cards
            /\ deck_pos' = _run_out_board(board_cards, deck_pos, sink.left + 1).deck_pos
            /\ SinkRaises
    /\ UNCHANGED <<hands_left, hand_cards, hand_value, config, button_seat, players, contributions, pot, current_bet,
                   last_full_raise, street, queue, acted, request, round_result,
                   auto_runout, hand_ranks, payouts, deltas, raises,
                   last_decision, lone_seat, since_full, closed, penalised, start_stack>>

\* hand-strength values the deck can give the non-folded seats
\* (only their order matters: the values used are 1..k for some k)
RankAssignments ==
    {hr \in [Seats -> 0..NumRanks] :
        /\ \A s \in Seats : (hr[s] = 0) <=> players[s].folded
        /\ \A s \in Seats : hr[s] > 1 => \E t \in Seats : hr[t] = hr[s] - 1}

\* play_hand from the survivors test to the return: sole survivor or showdown
Showdown ==
    /\ UNCHANGED <<recording, action_history, events, start_counters>>
    /\ pc = "showdown"
    /\ LET survivors == _players_remaining(players) IN
       IF Cardinality(survivors) = 1
       THEN /\ ApplyPayouts(SolePayout(CHOOSE s \in survivors : TRUE))
            /\ UNCHANGED hand_ranks
       ELSE IF \E s \in survivors : Len(players[s].hole_cards) + Len(board_cards) < 5
       THEN \* best_hand_rank raises ValueError below five cards
            /\ error' = "ValueError"
            /\ pc' = "error"
            /\ UNCHANGED <<players, payouts, deltas, hand_ranks, sink>>
       ELSE \E hr \in RankAssignments :
            /\ hand_ranks' = hr
            /\ ApplyPayouts(_resolve_showdown(players, contributions, button_seat, hr))
    /\ UNCHANGED <<hands_left, hand_cards, hand_value, config, button_seat, contributions, pot, current_bet,
                   last_full_raise, street, board_cards, deck_pos, queue, acted,
                   request, round_result, auto_runout, raises, last_decision,
                   lone_seat, since_full, closed, penalised, start_stack>>

\* the runner's loop over the hands of a session: the next play_hand call on
\* the same seat records, with the same button (heads-up) or the next one
NextHand ==
    /\ UNCHANGED <<recording, action_history, events, start_counters>>
    /\ pc = "done"
    /\ hands_left > 0
    /\ hands_left' = hands_left - 1
    /\ button_seat' = IF config.seat_count = 2 THEN button_seat
                      ELSE seat_after(button_seat, config.seat_count)
    /\ pc' = "reset"
    /\ current_bet' = 0
    /\ last_full_raise' = 0
    /\ street' = 1
    /\ deck_pos' = 0
    /\ queue' = <<>>
    /\ acted' = [s \in Seats |-> FALSE]
    /\ request' = NoRequest
    /\ round_result' = FALSE
    /\ auto_runout' = FALSE
    /\ hand_ranks' = [s \in Seats |-> 0]
    /\ raises' = 0
    /\ last_decision' = NoDecision
    /\ lone_seat' = {}
    /\ since_full' = [s \in Seats |-> FALSE]
    /\ closed' = [s \in Seats |-> FALSE]
    /\ payouts' = [s \in Seats |-> 0]
    /\ deltas' = [s \in Seats |-> 0]
    /\ UNCHANGED <<config, players, contributions, pot, board_cards,
                   error, sink, penalised, start_stack, hand_cards, hand_value>>

\* ------------------------------------------------------------------- Spec
Next ==
    \/ ResetPlayers
    \/ DealHoleCards
    \/ PostAntes
    \/ PostBlinds
    \/ BeginRound
    \/ ContinueLoop
    \/ RequestAction
    \/ Respond
    \/ AfterRound
    \/ DealStreet
    \/ RunOutBoard
    \/ Showdown
    \/ NextHand

Spec == Init /\ [][Next]_vars

\* the same engine, the sink being allowed to fail
SpecAnySink == InitAnySink /\ [][Next]_vars

\* the hands whose action history and events are examined
SpecRecorded == InitRecorded /\ [][Next]_vars

\* ---------------------------------------------------------- hand evaluator
\* cards.py on its own: card tokens are parsed by cards_from_iterable and the
\* cards ranked by best_hand_rank. A token is the sequence of its characters.
SUITS == <<"s", "h", "d", "c">>
RANKS == <<"2", "3", "4", "5", "6", "7", "8", "9", "T", "J", "Q", "K", "A">>
RANK_TO_INT(rank) == (CHOOSE i \in 1..Len(RANKS) : RANKS[i] = rank) + 1

SeqRange(q) == {q[i] : i \in 1..Len(q)}

\* str.strip on a token
RECURSIVE StripLeft(_)
StripLeft(token) ==
    IF token # <<>> /\ Head(token) = " " THEN StripLeft(Tail(token)) ELSE token
RECURSIVE StripRight(_)
StripRight(token) ==
    IF token # <<>> /\ token[Len(token)] = " "
    THEN StripRight(SubSeq(token, 1, Len(token) - 1)) ELSE token
Strip(token) == StripRight(StripLeft(token))

\* Card.__post_init__: does the constructor accept rank and suit
CardIsValid(rank, suit) == rank \in SeqRange(RANKS) /\ suit \in SeqRange(SUITS)

\* card_from_str: [ok, card]
card_from_str(token) ==
    LET t == Strip(token) IN
    IF Len(t) # 2 THEN [ok |-> FALSE, card |-> [rank |-> "", suit |-> ""]]
    ELSE [ok |-> CardIsValid(t[1], t[2]), card |-> [rank |-> t[1], suit |-> t[2]]]

\* cards_from_iterable: the cards, or ValueError from the first bad token
cards_from_iterable(tokens) ==
    IF \A i \in 1..Len(tokens) : card_from_str(tokens[i]).ok
    THEN [tag |-> "cards", cards |-> [i \in 1..Len(tokens) |-> card_from_str(tokens[i]).card]]
    ELSE [tag |-> "ValueError"]

\* sorted(set, reverse=True)
RECURSIVE SortedDesc(_)
SortedDesc(S) ==
    IF S = {} THEN <<>>
    ELSE LET m == CHOOSE x \in S : \A y \in S : y <= x
         IN <<m>> \o SortedDesc(S \ {m})

RECURSIVE Repeat(_, _)
Repeat(x, n) == IF n = 0 THEN <<>> ELSE <<x>> \o Repeat(x, n - 1)

\* the ranks of the cards as integers, and how often rank r occurs
RankInts(cards) == [i \in 1..Len(cards) |-> RANK_TO_INT(cards[i].rank)]
CountOf(cards, r) == Cardinality({i \in 1..Len(cards) : RANK_TO_INT(cards[i].rank) = r})

\* sorted(ranks, reverse=True) of a list with repetitions
RECURSIVE SortedRanks(_, _)
SortedRanks(cards, unique_ranks) ==
    IF unique_ranks = <<>> THEN <<>>
    ELSE Repeat(Head(unique_ranks), CountOf(cards, Head(unique_ranks)))
         \o SortedRanks(cards, Tail(unique_ranks))

\* sorted(counts.values(), reverse=True)
RECURSIVE CountValues(_, _)
CountValues(cards, n) ==
    IF n = 0 THEN <<>>
    ELSE LET with_n == {r \in SeqRange(RankInts(cards)) : CountOf(cards, r) = n}
         IN Repeat(n, Cardinality(with_n)) \o CountValues(cards, n - 1)

MaxOf(S) == CHOOSE x \in S : \A y \in S : y <= x

\* straight detection without the wheel case
StraightHighNoWheel(rank_set) ==
    IF \E start \in 4..14 : rank_set = (start - 4)..start /\ Cardinality(rank_set) = 5
    THEN MaxOf({start \in 4..14 : rank_set = (start - 4)..start})
    ELSE 0

\* evaluate_five: straight detection with wheel handling; 0 for no straight
StraightHigh(rank_set) ==
    IF \E start \in 4..14 : rank_set = (start - 4)..start /\ Cardinality(rank_set) = 5
    THEN MaxOf({start \in 4..14 : rank_set = (start - 4)..start})
    ELSE IF rank_set = {14, 5, 4, 3, 2} THEN 5
    ELSE 0

\* evaluate_five: <<category, kickers>>
evaluate_five(cards) ==
    LET rank_set == SeqRange(RankInts(cards))
        unique_ranks == SortedDesc(rank_set)
        ranks == SortedRanks(cards, unique_ranks)
        is_flush == Cardinality({cards[i].suit : i \in 1..Len(cards)}) = 1
        straight_high == StraightHigh(rank_set)
        is_straight == straight_high # 0
        count_values == CountValues(cards, Len(cards))
        WithCount(c) == {r \in rank_set : CountOf(cards, r) = c}
    IN IF is_flush /\ is_straight THEN <<9, <<straight_high>>>>
       ELSE IF count_values = <<4, 1>> THEN
           LET four_rank == MaxOf(WithCount(4)) IN
           <<8, <<four_rank, MaxOf(rank_set \ {four_rank})>>>>
       ELSE IF count_values = <<3, 2>> THEN
           <<7, <<MaxOf(WithCount(3)), MaxOf(WithCount(2))>>>>
       ELSE IF is_flush THEN <<6, ranks>>
       ELSE IF is_straight THEN <<5, <<straight_high>>>>
       ELSE IF count_values = <<3, 1, 1>> THEN
           LET trips_rank == MaxOf(WithCount(3)) IN
           <<4, <<trips_rank>> \o SortedDesc(rank_set \ {trips_rank})>>
       ELSE IF count_values = <<2, 2, 1>> THEN
           <<3, SortedDesc(WithCount(2)) \o <<MaxOf(WithCount(1))>>>>
       ELSE IF count_values = <<2, 1, 1, 1>> THEN
           LET pair_rank == MaxOf(WithCount(2)) IN
           <<2, <<pair_rank>> \o SortedDesc(rank_set \ {pair_rank})>>
       ELSE <<1, ranks>>

\* Python's > on tuples of integers
RECURSIVE TupleGreater(_, _)
TupleGreater(a, b) ==
    IF a = <<>> THEN FALSE
    ELSE IF b = <<>> THEN TRUE
    ELSE IF a[1] # b[1] THEN a[1] > b[1]
    ELSE TupleGreater(Tail(a), Tail(b))

\* a comparison of (category, kickers) values that stops at the category
ValueGreaterByCategory(v, w) == v[1] > w[1]

\* Python's > on (category, kickers) values
ValueGreater(v, w) == v[1] > w[1] \/ (v[1] = w[1] /\ TupleGreater(v[2], w[2]))

\* itertools.combinations(cards, 5), as sets of positions
Combinations(n) == {S \in SUBSET (1..n) : Cardinality(S) = 5}

\* the cards at the positions of S, in the order of the list
RECURSIVE Pick(_, _)
Pick(q, S) ==
    IF S = {} THEN <<>>
    ELSE LET i == CHOOSE x \in S : \A y \in S : x <= y
         IN <<q[i]>> \o Pick(q, S \ {i})

\* the loop of best_hand_rank over the combinations still to be visited
RECURSIVE BestOver(_, _, _)
BestOver(cards, combos, best) ==
    IF combos = {} THEN best
    ELSE LET combo == CHOOSE S \in combos : TRUE
             value == evaluate_five(Pick(cards, combo))
         IN BestOver(cards, combos \ {combo},
                     IF ValueGreater(value, best) THEN value ELSE best)

\* best_hand_rank: the value, or ValueError below five cards
best_hand_rank(cards) ==
    IF Len(cards) < 5 THEN [tag |-> "ValueError"]
    ELSE [tag |-> "rank",
          rank |-> BestOver(cards, Combinations(Len(cards)), <<0, <<>>>>)]

\* the hands given to the evaluator: hole cards Ah 2h with board
\* 3c 4d 5s K? Jc, the K in each suit and written "Kq"
Scenario(suit) ==
    << <<"A", "h">>, <<"2", "h">>, <<"3", "c">>, <<"4", "d">>, <<"5", "s">>,
       <<"K", suit>>, <<"J", "c">> >>

\* the cards the other hands are taken from
Pool ==
    << <<"A", "h">>, <<"2", "h">>, <<"3", "c">>, <<"4", "d">>, <<"5", "s">>,
       <<"6", "c">>, <<"K", "h">>, <<"K", "d">>, <<"K", "s">> >>

\* cards holding a flush, a straight flush, a full house and two pair
FlushPool ==
    << <<"9", "d">>, <<"K", "h">>, <<"5", "h">>, <<"9", "h">>, <<"8", "d">>,
       <<"7", "h">>, <<"6", "h">>, <<"9", "c">>, <<"8", "h">> >>

Hands ==
    {Scenario(suit) : suit \in SeqRange(SUITS) \cup {"q"}}
    \cup {Pick(Pool, S) : S \in {T \in SUBSET (1..Len(Pool)) : Cardinality(T) \in {5, 7}}}
    \cup {Pick(FlushPool, S) :
             S \in {T \in SUBSET (1..Len(FlushPool)) : Cardinality(T) \in {5, 6, 7}}}
    \cup { \* four cards only, a padded token, a token of three characters
           SubSeq(Pool, 1, 4),
           << <<" ", "A", "h">>, <<"2", "h", " ">>, <<"3", "c">>, <<"4", "d">>, <<"5", "s">> >>,
           << <<"1", "0", "h">>, <<"2", "h">>, <<"3", "c">>, <<"4", "d">>, <<"5", "s">> >> }

\* the engine stands still in this specification
engine_vars ==
    <<config, button_seat, players, contributions, pot, current_bet,
      last_full_raise, street, board_cards, deck_pos, queue, acted,
      request, round_result, auto_runout, hand_ranks, payouts, deltas,
      pc, error, raises, last_decision, lone_seat, since_full, closed,
      sink, hands_left, penalised, start_stack, recording, action_history,
      events, start_counters>>

InitCards ==
    /\ \E t \in Tables : /\ SessionOf(t)
                         /\ t.config.stacks = <<1000, 1000>>
    /\ sink = ReliableSink
    /\ recording = FALSE
    /\ Start
    /\ hand_cards \in Hands
    /\ hand_value = NotEvaluated

\* cards_from_iterable on the tokens
ParseCards ==
    /\ hand_value = NotEvaluated
    /\ hand_value' = cards_from_iterable(hand_cards)
    /\ UNCHANGED <<hand_cards, engine_vars>>

\* best_hand_rank on the parsed cards
BestHandRank ==
    /\ hand_value.tag = "cards"
    /\ hand_value' = best_hand_rank(hand_value.cards)
    /\ UNCHANGED <<hand_cards, engine_vars>>

NextCards ==
    \/ ParseCards
    \/ BestHandRank

SpecCards == InitCards /\ [][NextCards]_vars

\* ----------------------------------------------------------------- claims
Decided == last_decision.kind = "decision"

\* C1: chip conservation: when a hand is complete, the payouts sum to the
\* contributions and the returned deltas sum to zero.
C1_ChipConservation ==
    pc = "done" =>
        /\ SumOver(payouts, Seats) = SumOver(contributions, Seats)
        /\ SumOver(deltas, Seats) = 0

\* C2: once only one non-folded seat remained in a hand, that seat is awarded
\* the whole pot: its delta is the sum of the other seats' contributions and
\* every other seat loses its own contribution; heads-up 5/10 with 1000 each,
\* the button folding preflop without a raise gives deltas -5 and +5.
C2_FoldOutAward ==
    pc = "done" =>
        /\ \A w \in lone_seat :
             /\ deltas[w] = SumOver(contributions, Seats \ {w})
             /\ \A t \in Seats \ {w} : deltas[t] = -contributions[t]
        /\ (/\ config.seat_count = 2 /\ config.small_blind = 5 /\ config.big_blind = 10
            /\ config.starting_stack = 1000 /\ config.auto_top_up
            /\ button_seat = 0 /\ players[0].folded /\ contributions[0] = 5
            /\ raises = 0)
           => (deltas[0] = -5 /\ deltas[1] = 5)

\* C3: early exit: when a betting round has ended with only one non-folded
\* seat, the next step of play_hand is the payout: no board card is dealt, no
\* betting round is begun and no decision is requested.
C3_EarlyExit ==
    [][(pc = "after_round" /\ Cardinality(NonFolded(players)) = 1)
        => (pc' \in {"showdown", "done"} /\ board_cards' = board_cards
            /\ deck_pos' = deck_pos)]_vars

\* C4: a raise that reaches current_bet + last_full_raise is a full raise: it
\* sets current_bet and last_full_raise and clears the acted flag of every
\* other non-folded, non-all-in seat, also when the raiser is left all-in.
C4_FullRaiseReopens ==
    (/\ Decided /\ error = ""
     /\ last_decision.applied.action = "raise_to"
     /\ LET d == last_decision
        IN IF d.prev.current_bet = 0
           THEN players[d.seat].bet >= config.big_blind
           ELSE players[d.seat].bet >= d.prev.current_bet + d.prev.last_full_raise)
    => LET d == last_decision IN
       /\ current_bet = players[d.seat].bet
       /\ last_full_raise = current_bet - d.prev.current_bet
       /\ pc = "loop" =>
            \A s \in Seats \ {d.seat} : IsActive(players, s) => ~acted[s]

\* C5: a short all-in (a raise to less than current_bet + last_full_raise)
\* raises current_bet to the raiser's total, leaves last_full_raise and the
\* acted flags of the other seats as they were, and a seat that had acted is
\* then offered fold and call only.
C5_ShortAllInDoesNotReopen ==
    /\ (/\ Decided /\ error = ""
        /\ last_decision.applied.action = "raise_to"
        /\ last_decision.prev.current_bet > 0
        /\ players[last_decision.seat].bet
             < last_decision.prev.current_bet + last_decision.prev.last_full_raise)
       => LET d == last_decision IN
          /\ current_bet = players[d.seat].bet
          /\ current_bet > d.prev.current_bet
          /\ last_full_raise = d.prev.last_full_raise
          /\ pc = "loop" =>
               \A s \in Seats \ {d.seat} :
                   (IsActive(players, s) /\ d.prev.acted[s]) => acted[s]
    /\ (pc = "await" /\ closed[request.seat])
       => /\ request.legal_actions = {"fold", "call"}
          /\ request.to_call > 0

\* three seats in the hand, one all-in at the current bet, the two others had
\* acted before its short raise and one of them is asked again
C5_Witness ==
    /\ pc = "await" /\ closed[request.seat]
    /\ Cardinality(NonFolded(players)) = 3
    /\ \E b \in Seats \ {request.seat} : closed[b]
    /\ \E c \in Seats : players[c].all_in /\ players[c].bet = current_bet
    /\ current_bet < players[request.seat].bet + last_full_raise

\* C6: legality closure of every ActionRequest: fold always; check iff
\* to_call = 0; call iff to_call > 0 and stack > 0; raise_to iff stack > 0,
\* bet + stack exceeds bet + to_call, and the seat has not acted since the
\* last full raise.
C6_LegalityClosure ==
    pc = "await" =>
        LET p == players[request.seat]
            legal == request.legal_actions
            to_call == request.to_call
        IN /\ to_call = current_bet - p.bet
           /\ "fold" \in legal
           /\ ("check" \in legal) <=> (to_call = 0)
           /\ ("call" \in legal) <=> (to_call > 0 /\ p.stack > 0)
           /\ ("raise_to" \in legal) <=>
                (p.stack > 0 /\ p.bet + p.stack > p.bet + to_call
                 /\ ~since_full[request.seat])

\* ---- side pots, stated over the contribution levels
Levels == {contributions[s] : s \in Seats} \ {0}
PrevLevel(L) == IF \E x \in Levels : x < L
                THEN CHOOSE x \in Levels : x < L /\ \A y \in Levels : y < L => y <= x
                ELSE 0
TierSize(L) == (L - PrevLevel(L)) * Cardinality({s \in Seats : contributions[s] >= L})
TierEligible(L) == {s \in Seats : ~players[s].folded /\ contributions[s] >= L}
TierWinners(L) ==
    {s \in TierEligible(L) : \A t \in TierEligible(L) : hand_ranks[t] <= hand_ranks[s]}
\* seats met before s when going round the table from the seat left of the button
LeftDistance(s) == (s - button_seat - 1 + config.seat_count) % config.seat_count
WinnersBefore(s, L) ==
    Cardinality({t \in TierWinners(L) : LeftDistance(t) < LeftDistance(s)})
TierShare(s, L) ==
    IF s \notin TierWinners(L) THEN 0
    ELSE TierSize(L) \div Cardinality(TierWinners(L))
         + (IF WinnersBefore(s, L) < TierSize(L) % Cardinality(TierWinners(L))
            THEN 1 ELSE 0)
RECURSIVE ShareSum(_, _)
ShareSum(s, Ls) ==
    IF Ls = {} THEN 0
    ELSE LET L == CHOOSE x \in Ls : TRUE IN TierShare(s, L) + ShareSum(s, Ls \ {L})
AtShowdown == pc = "done" /\ Cardinality(NonFolded(players)) >= 2

\* C7: at a showdown every seat is paid, tier by tier, its share of each tier
\* it wins: the tier at level L has size (L - P) x (seats with contribution
\* >= L) and goes to the best-ranked non-folded seats among them, a tier with
\* one eligible seat going back to that seat; with contributions 100/300/500,
\* nobody folded and seat0 > seat1 > seat2 the deltas are +200, +100, -300.
C7_SidePots ==
    AtShowdown =>
        /\ \A s \in Seats : payouts[s] = ShareSum(s, Levels)
        /\ \A L \in Levels : \A s \in Seats :
              TierEligible(L) = {s} => TierShare(s, L) = TierSize(L)
        /\ (/\ config.seat_count = 3
            /\ contributions = [s \in Seats |-> IF s = 0 THEN 100 ELSE IF s = 1 THEN 300 ELSE 500]
            /\ hand_ranks[0] > hand_ranks[1] /\ hand_ranks[1] > hand_ranks[2])
           => deltas = [s \in Seats |-> IF s = 0 THEN 200 ELSE IF s = 1 THEN 100 ELSE -300]

\* the 100/300/500 showdown, and a showdown with a folded seat's chips in a tier
C7_Witness ==
    /\ AtShowdown
    /\ contributions = [s \in Seats |-> IF s = 0 THEN 100 ELSE IF s = 1 THEN 300 ELSE 500]
    /\ Cardinality(NonFolded(players)) = 3
    /\ hand_ranks[0] > hand_ranks[1] /\ hand_ranks[1] > hand_ranks[2]

\* C8: odd chips: of a tier of size S won by k tied seats each winner gets
\* floor(S / k), the first S mod k winners going round from the seat left of
\* the button get one chip more, nobody else gets anything, and the tier's
\* payments sum to S.
C8_OddChips ==
    AtShowdown =>
        \A i \in 1..Len(_build_side_pots(players, contributions)) :
            LET p == _build_side_pots(players, contributions)[i]
                W == Winners(p, hand_ranks)
                k == Cardinality(W)
                paid == PayPot([s \in Seats |-> 0], p, hand_ranks,
                               _odd_chip_distribution_order(button_seat))
            IN k > 0 =>
                 /\ SumOver(paid, Seats) = p.size
                 /\ \A s \in Seats \ W : paid[s] = 0
                 /\ \A s \in W :
                      paid[s] = (p.size \div k)
                                + (IF Cardinality({t \in W : LeftDistance(t) < LeftDistance(s)})
                                      < p.size % k
                                   THEN 1 ELSE 0)

\* a tier with an odd chip split between tied winners
C8_Witness ==
    /\ AtShowdown
    /\ \E L \in Levels :
         /\ Cardinality(TierWinners(L)) >= 2
         /\ TierSize(L) % Cardinality(TierWinners(L)) # 0
         /\ \E s \in TierWinners(L) : payouts[s] > 0

\* ---- decision faults, stated over the request and the raw answer
RawCallTotal == last_decision.prev.player.bet + last_decision.request.to_call
RawMaxTotal == last_decision.prev.player.bet + last_decision.prev.player.stack
RawIsRaise ==
    /\ last_decision.raw.action = "raise_to"
    /\ "raise_to" \in last_decision.request.legal_actions
NotLegal == last_decision.raw.action \notin last_decision.request.legal_actions
AmountMissing == RawIsRaise /\ last_decision.raw.amount.tag = "none"
AmountNonInteger == RawIsRaise /\ last_decision.raw.amount.tag = "float"
AmountTooSmall ==
    /\ RawIsRaise /\ last_decision.raw.amount.tag = "int"
    /\ \/ last_decision.raw.amount.val <= RawCallTotal
       \/ last_decision.raw.amount.val < Min(last_decision.request.min_raise_to, RawMaxTotal)
AmountTooLarge ==
    /\ RawIsRaise /\ last_decision.raw.amount.tag = "int"
    /\ last_decision.raw.amount.val > RawMaxTotal
\* too large for a seat that cannot afford the minimum raise
AmountTooLargeShort == AmountTooLarge /\ RawMaxTotal < last_decision.request.min_raise_to
IsResponse == Decided /\ last_decision.raw.type = "ActionResponse"
PenaltiesOf(p) == p.timeouts + p.illegal_actions
Penalised ==
    /\ last_decision.penalty # "none"
    /\ PenaltiesOf(players[last_decision.seat]) = PenaltiesOf(last_decision.prev.player) + 1
    /\ last_decision.applied.action \in {"fold", "check"}
    /\ last_decision.applied.action = "check" => last_decision.request.to_call = 0
    /\ players[last_decision.seat].stack = last_decision.prev.player.stack
NoFatalError ==
    /\ error \notin {"IllegalActionError", "ValueError"}
    /\ IsResponse => (error = "" /\ pc # "error")

\* C9 as stated: every faulty ActionResponse (action outside the legal set,
\* raise_to with a missing, non-integer, too small or too large amount) and
\* every timed-out decision is penalised and replaced by the fallback, and
\* play_hand never raises IllegalActionError.
C9_EveryFaultPenalised ==
    /\ NoFatalError
    /\ (IsResponse /\ (last_decision.timed_out \/ NotLegal \/ AmountMissing
                       \/ AmountNonInteger \/ AmountTooSmall \/ AmountTooLarge))
       => Penalised

\* C9 amended: a too large amount is a fault only for a seat that cannot
\* afford the minimum raise; otherwise it is applied as a raise to the seat's
\* whole stack without a penalty. Faults and timeouts are penalised and
\* replaced by the fallback, nothing else is, and no decision is fatal.
C9_FaultsNeverFatal ==
    /\ NoFatalError
    /\ IsResponse =>
         LET fault == \/ last_decision.timed_out \/ NotLegal \/ AmountMissing
                      \/ AmountNonInteger \/ AmountTooSmall \/ AmountTooLargeShort
         IN /\ fault => Penalised
            /\ ~fault =>
                 /\ last_decision.penalty = "none"
                 /\ PenaltiesOf(players[last_decision.seat])
                      = PenaltiesOf(last_decision.prev.player)
                 /\ last_decision.applied.action = last_decision.raw.action
            /\ (~last_decision.timed_out /\ AmountTooLarge /\ ~AmountTooLargeShort)
               => /\ last_decision.applied.action = "raise_to"
                  /\ players[last_decision.seat].bet = RawMaxTotal
                  /\ players[last_decision.seat].all_in

\* an illegal action, a bad amount and a timeout behind a finished hand
C9_Witness ==
    /\ IsResponse /\ pc \in {"loop", "after_round"}
    /\ last_decision.penalty = "illegal_action"
    /\ AmountMissing \/ AmountNonInteger \/ AmountTooSmall \/ AmountTooLargeShort
    /\ last_decision.request.to_call > 0

\* C10: a malformed answer (not an ActionResponse, or an action that is not
\* one of fold, check, call, raise_to) leaves play_hand as an error and no
\* fallback action is applied for it.
C10_MalformedIsHardError ==
    (Decided /\ (last_decision.raw.type # "ActionResponse"
                 \/ last_decision.raw.action \notin RecognizedActions))
    => (pc = "error" /\ error # "" /\ last_decision.penalty = "none")

\* ---------------------------------------------------------------- C11
\* C11: event-sink isolation: a failure of the sink's log operation never
\* leaves play_hand as an exception (the hand goes on as with a sink that
\* never fails).
C11_SinkIsolation == error # "OSError"

\* ---------------------------------------------------------------- C12
\* positions of play_hand inside _betting_round
InRound == pc \in {"round_begin", "loop", "await"}

\* C12: monotonic bet: within a betting round no seat's street bet exceeds
\* current_bet and every request has to_call >= 0; from one step of the round
\* to the next current_bet never decreases and no seat's street bet decreases.
C12_MonotonicBet ==
    /\ [](InRound => /\ \A s \in Seats : players[s].bet <= current_bet
                     /\ (pc = "await" => request.to_call >= 0))
    /\ [][InRound => /\ current_bet' >= current_bet
                     /\ \A s \in Seats : players'[s].bet >= players[s].bet]_vars

\* a raise was applied on top of a bet and the round goes on
C12_Witness ==
    /\ pc = "loop"
    /\ Decided /\ last_decision.applied.action = "raise_to"
    /\ current_bet > config.big_blind
    /\ \E s \in Seats : players[s].bet > 0 /\ players[s].bet < current_bet

\* ---------------------------------------------------------------- C13
\* C13: all-in closure: in every state of a hand after the per-hand reset, up
\* to and including the payout, a seat's stack is 0 exactly if its all_in
\* flag is set.
C13_AllInClosure ==
    pc # "reset" => \A s \in Seats : (players[s].stack = 0) <=> players[s].all_in

\* ---------------------------------------------------------------- C14
\* C14: stage order at the start of a hand: the hole cards are dealt only
\* after the antes and the blinds were posted, so no seat holds hole cards
\* while play_hand is still to post the antes or the blinds.
C14_StageOrder ==
    pc \in {"antes", "blinds"} => \A s \in Seats : players[s].hole_cards = <<>>

\* ---------------------------------------------------------------- C15
\* at least two seats have not folded, all of them are all-in, and the table
\* runs the board out (the flags of a hand last until the next hand's reset)
AllInRunOutCase ==
    /\ config.runout_when_all_in
    /\ pc # "reset"
    /\ Cardinality({s \in Seats : ~players[s].folded}) >= 2
    /\ \A s \in Seats : players[s].folded \/ players[s].all_in

\* C15: all-in run-out: once every non-folded seat (at least two) is all-in
\* and run-out is enabled, no decision is requested any more and no further
\* betting round is dealt; play_hand returns with a board of exactly 5 cards
\* and the payouts of the showdown among the non-folded seats.
C15_AllInRunOut ==
    AllInRunOutCase =>
        /\ pc \in {"blinds", "round_begin", "after_round", "run_out", "showdown", "done"}
        /\ error = ""
        /\ request = NoRequest
        /\ pc = "done" =>
              /\ Len(board_cards) = 5
              /\ \A s \in Seats : ~players[s].folded => hand_ranks[s] > 0
              /\ payouts = _resolve_showdown(players, contributions, button_seat, hand_ranks)

\* a hand that went all-in before the flop with a folded seat beside it, run
\* out and paid
C15_Witness ==
    /\ AllInRunOutCase
    /\ pc = "done"
    /\ street = 1
    /\ Len(board_cards) = 5
    /\ \E s \in Seats : players[s].folded

\* ---------------------------------------------------------------- C16
\* C16: result of play_hand: on return every seat's delta is its payout minus
\* its contribution of the hand, and its stack is its stack after the
\* per-hand reset plus that delta.
C16_Deltas ==
    pc = "done" =>
        \A s \in Seats :
            /\ deltas[s] = payouts[s] - contributions[s]
            /\ players[s].stack = start_stack[s] + deltas[s]

\* a hand returned after a call, with a winner and a loser
C16_Witness ==
    /\ pc = "done"
    /\ \E s \in Seats : deltas[s] > 0
    /\ \E s \in Seats : deltas[s] < 0 /\ players[s].stack > 0 /\ ~players[s].folded
    /\ \E s \in Seats : contributions[s] > config.big_blind + config.ante

\* ---------------------------------------------------------------- C17
\* C17: determinism: the outcome of a decision depends on the state of the
\* hand and on the agent's ActionResponse only, not on the measured decision
\* time: the action applied is always the one _normalize_action gives for
\* the agent's own response.
C17_Determinism ==
    [][(pc = "await" /\ last_decision'.kind = "decision"
        /\ last_decision'.raw.type = "ActionResponse")
       => last_decision'.applied =
             _normalize_action(players[request.seat], last_decision'.raw,
                               request.legal_actions, request.to_call,
                               current_bet, last_full_raise).response]_vars

\* ---------------------------------------------------------------- C18
\* C18: session counters persist: over the hands played on the same seat
\* records each seat's timeouts and illegal_actions counters equal the number
\* of decisions classified as timeout / illegal action so far, and no step
\* (the per-hand reset included) decreases them.
C18_CountersPersist ==
    /\ [](\A s \in Seats : /\ players[s].timeouts = penalised[s].timeouts
                           /\ players[s].illegal_actions = penalised[s].illegal_actions)
    /\ [][\A s \in Seats : /\ players'[s].timeouts >= players[s].timeouts
                           /\ players'[s].illegal_actions >= players[s].illegal_actions]_vars

\* the second hand of a session was reset (bets and flags cleared, stacks
\* topped up) with a penalty of the first hand on a seat's record
C18_Witness ==
    /\ pc = "deal_hole"
    /\ hands_left = 0
    /\ \E s \in Seats : players[s].timeouts + players[s].illegal_actions > 0
    /\ \A s \in Seats : players[s].stack = config.starting_stack /\ ~players[s].folded

\* ---------------------------------------------------------------- C20
\* C20: round termination on fold-out: no decision is requested while at most
\* one non-folded seat remains (the round ends with the fold that leaves a
\* single non-folded seat, without asking that seat).
C20_FoldOutEndsRound ==
    pc = "await" => Cardinality(NonFolded(players)) >= 2

\* ---------------------------------------------------------------- C19
\* the hand evaluator returned a value for the hand
Ranked == hand_value.tag = "rank"

\* the ranks held in the hand, as integers
HeldRanks == {RANK_TO_INT(Strip(hand_cards[i])[1]) : i \in 1..Len(hand_cards)}

\* a wheel ranks below every other straight and above every three of a kind;
\* a hand holding A 2 3 4 5 is ranked a straight at least, the 6-high one when
\* it holds a 6 as well, the wheel itself when nothing better is in it
WheelOrder ==
    Ranked =>
        LET v == hand_value.rank IN
        /\ (v[1] = 5 /\ v # <<5, <<5>>>>) => ValueGreater(v, <<5, <<5>>>>)
        /\ v[1] = 4 => ValueGreater(<<5, <<5>>>>, v)
        /\ {14, 2, 3, 4, 5} \subseteq HeldRanks => v[1] >= 5
        /\ ({14, 2, 3, 4, 5} \subseteq HeldRanks /\ v[1] = 5)
              => v[2] = (IF 6 \in HeldRanks THEN <<6>> ELSE <<5>>)
        /\ v = <<5, <<5>>>> => {14, 2, 3, 4, 5} \subseteq HeldRanks

\* C19 as stated: best_hand_rank over hole cards Ah 2h and board
\* 3c 4d 5s Kq Jc returns category 5 with kickers (5), and the wheel ranks
\* below every other straight and above every three of a kind.
C19_WheelAsStated ==
    /\ (hand_cards = Scenario("q") /\ hand_value.tag \notin {"none", "cards"})
          => (Ranked /\ hand_value.rank = <<5, <<5>>>>)
    /\ WheelOrder

\* C19 amended: with the K in any of the four suits the scenario's hand is
\* ranked category 5 with kickers (5), the ace counting low; the token "Kq"
\* names no card and is refused with ValueError; the wheel ranks below every
\* other straight and above every three of a kind.
C19_WheelStraight ==
    /\ \A suit \in SeqRange(SUITS) :
          (hand_cards = Scenario(suit) /\ hand_value.tag \notin {"none", "cards"})
             => (Ranked /\ hand_value.rank = <<5, <<5>>>>)
    /\ (hand_cards = Scenario("q") /\ hand_value.tag # "none")
          => hand_value.tag = "ValueError"
    /\ WheelOrder

\* the scenario's hand with a king of diamonds was ranked
C19_Witness ==
    /\ hand_cards = Scenario("d")
    /\ Ranked
    /\ hand_value.rank[1] = 5

\* ---------------------------------------------------------------- C21
\* a betting round has just returned to play_hand with at least two
\* non-folded seats, not all of them all-in
RoundEndedContested ==
    /\ pc = "after_round"
    /\ Cardinality({s \in Seats : ~players[s].folded}) >= 2
    /\ \E s \in Seats : ~players[s].folded /\ ~players[s].all_in

\* C21: round completeness: while at least two seats are non-folded and not
\* all of them are all-in, a betting round ends only when every non-folded,
\* non-all-in seat has a street bet equal to current_bet and has acted in the
\* round since the last full raise.
C21_RoundCompleteness ==
    RoundEndedContested =>
        \A s \in Seats :
            (~players[s].folded /\ ~players[s].all_in)
               => (players[s].bet = current_bet /\ since_full[s])

\* a round with a raise and a call ended with two seats still able to bet
C21_Witness ==
    /\ RoundEndedContested
    /\ current_bet > config.big_blind
    /\ Cardinality({s \in Seats : IsActive(players, s) /\ players[s].bet = current_bet}) >= 2

\* ---------------------------------------------------------------- C22
\* seat s is non-folded, not all-in and owes chips or has not acted
StillToAct(s) == IsActive(players, s) /\ NeedsAction(players, acted, current_bet, s)

\* the seat the loop asks next, from the queue as the last action left it
\* (the queue is refilled from the active order when nobody in it is to act)
NextAsked ==
    LET in_queue == SelectSeq(queue, StillToAct)
        in_order == SelectSeq(_active_order(Order, players), StillToAct)
    IN IF in_queue # <<>> THEN {Head(in_queue)}
       ELSE IF in_order # <<>> THEN {Head(in_order)}
       ELSE {}

\* the first seat clockwise from seat that is still to act
FirstClockwise(seat) ==
    LET steps == {k \in 1..(config.seat_count - 1) :
                     StillToAct((seat + k) % config.seat_count)}
    IN IF steps = {} THEN {}
       ELSE {(seat + (CHOOSE k \in steps : \A j \in steps : k <= j)) % config.seat_count}

\* C22: clockwise action order: after a seat has acted, the next seat asked
\* for a decision in the round is the first seat clockwise from it that is
\* non-folded, not all-in and still needs to act.
C22_ClockwiseOrder ==
    (pc = "loop" /\ Decided) => NextAsked = FirstClockwise(last_decision.seat)

\* ---------------------------------------------------------------- C23
\* C23: at every point of a hand at least one seat is non-folded (a fold is
\* never applied to the only remaining non-folded seat).
C23_SomeoneRemains == NonFolded(players) # {}

\* ---------------------------------------------------------------- C24
\* the agent answered raise_to in time, raise_to being legal
RaiseAnswered == IsResponse /\ ~last_decision.timed_out /\ RawIsRaise

\* the sizing rule for the target of the agent's raise_to
SizingOk ==
    /\ last_decision.raw.amount.tag = "int"
    /\ last_decision.raw.amount.val > RawCallTotal
    /\ IF RawMaxTotal >= last_decision.request.min_raise_to
       THEN last_decision.raw.amount.val >= last_decision.request.min_raise_to
       ELSE last_decision.raw.amount.val = RawMaxTotal

\* a raise was applied for the decision
RaiseApplied == Decided /\ last_decision.applied.action = "raise_to" /\ error = ""

\* C24: raise sizing: a raise_to answer (raise_to being legal) is accepted
\* exactly if its target is an integer above the call total and reaches
\* min_raise_to when the seat can afford it, or is exactly bet + stack when it
\* cannot; any other target is penalised as an illegal action and replaced by
\* the fallback. After every applied raise the raiser's street bet is at
\* least min_raise_to or the raiser is all-in, and the bet is above the
\* previous current_bet.
C24_RaiseSizing ==
    /\ RaiseAnswered =>
          IF SizingOk
          THEN /\ last_decision.penalty = "none"
               /\ last_decision.applied.action = "raise_to"
               /\ last_decision.applied.amount.val = Min(last_decision.raw.amount.val, RawMaxTotal)
          ELSE /\ last_decision.penalty = "illegal_action"
               /\ Penalised
    /\ RaiseApplied =>
          /\ \/ players[last_decision.seat].bet >= last_decision.request.min_raise_to
             \/ players[last_decision.seat].all_in
          /\ players[last_decision.seat].bet > last_decision.prev.current_bet
          /\ players[last_decision.seat].bet = last_decision.applied.amount.val

\* a raise to less than min_raise_to by a seat that could afford min_raise_to
\* was refused
C24_Witness ==
    /\ RaiseAnswered
    /\ last_decision.raw.amount.tag = "int"
    /\ last_decision.raw.amount.val > RawCallTotal
    /\ last_decision.raw.amount.val < last_decision.request.min_raise_to
    /\ RawMaxTotal >= last_decision.request.min_raise_to
    /\ last_decision.penalty = "illegal_action"

\* ---------------------------------------------------------------- C25
\* the policy configured for the kind of penalty of the last decision
PolicyOf(penalty) ==
    IF penalty = "timeout" THEN config.timeout_fallback_policy
    ELSE config.illegal_action_fallback_policy

\* C25: fallback policy: the action substituted for a timed-out or illegal
\* decision is fold under the fold policy, and under the default policy check
\* when to_call = 0 and fold when to_call > 0; it is in the legal set, it is
\* never call or raise_to, and the seat's stack, street bet and contribution
\* stay as they were.
C25_FallbackPolicy ==
    (Decided /\ last_decision.penalty # "none") =>
        LET seat == last_decision.seat
            to_call == last_decision.request.to_call
            action == last_decision.applied.action
        IN /\ action = (IF PolicyOf(last_decision.penalty) = FoldPolicy THEN "fold"
                        ELSE IF to_call = 0 THEN "check" ELSE "fold")
           /\ action \in last_decision.request.legal_actions
           /\ action \notin {"call", "raise_to"}
           /\ players[seat].stack = last_decision.prev.player.stack
           /\ players[seat].bet = last_decision.prev.player.bet
           /\ current_bet = last_decision.prev.current_bet
           /\ players[seat].folded = (action = "fold")

\* under the fold policy a timed-out seat was folded although it could check
C25_Witness ==
    /\ Decided
    /\ last_decision.penalty = "timeout"
    /\ config.timeout_fallback_policy = FoldPolicy
    /\ last_decision.request.to_call = 0
    /\ players[last_decision.seat].folded

\* ---------------------------------------------------------------- C26
\* the clock reading of the last decision, less the wait its answer reports,
\* exceeds the timebank
OverTimebank ==
    last_decision.measured - last_decision.wait_time_ms > config.time_per_decision_ms

\* C26: retrospective timeout: when the measured time of an agent call less
\* the answer's wait_time_ms exceeds the timebank, the answer is discarded
\* even if legal: the seat's timeouts counter goes up by one, the decision is
\* classified as a timeout and the timeout fallback is applied; when it does
\* not exceed the timebank no timeout is recorded.
C26_RetrospectiveTimeout ==
    IsResponse =>
        LET seat == last_decision.seat
            before == last_decision.prev.player
        IN IF OverTimebank
           THEN /\ last_decision.timed_out
                /\ last_decision.penalty = "timeout"
                /\ players[seat].timeouts = before.timeouts + 1
                /\ players[seat].illegal_actions = before.illegal_actions
                /\ last_decision.applied.action =
                      (IF config.timeout_fallback_policy = FoldPolicy THEN "fold"
                       ELSE IF last_decision.request.to_call = 0 THEN "check" ELSE "fold")
           ELSE /\ ~last_decision.timed_out
                /\ last_decision.penalty # "timeout"
                /\ players[seat].timeouts = before.timeouts

\* a legal call that took too long was replaced by a fold
C26_Witness ==
    /\ IsResponse
    /\ OverTimebank
    /\ last_decision.raw.action = "call"
    /\ "call" \in last_decision.request.legal_actions
    /\ players[last_decision.seat].folded
    /\ players[last_decision.seat].timeouts = 1

\* ---------------------------------------------------------------- C27
\* C27: in every ActionRequest to_call is current_bet minus the seat's street
\* bet and min_raise_to is current_bet + max(last_full_raise, big_blind), or
\* big_blind when current_bet is 0; after a full raise from current bet C to
\* total T with T - C >= big_blind the min_raise_to of the round's later
\* requests is T + (T - C).
C27_RequestAmounts ==
    /\ [](pc = "await" =>
            /\ request.to_call = current_bet - players[request.seat].bet
            /\ request.min_raise_to =
                  (IF current_bet = 0 THEN config.big_blind
                   ELSE current_bet + Max(last_full_raise, config.big_blind)))
    /\ []((InRound /\ RaiseApplied /\ last_decision.is_full_raise
           /\ current_bet - last_decision.prev.current_bet >= config.big_blind)
             => /\ current_bet = last_decision.applied.amount.val
                /\ last_full_raise = current_bet - last_decision.prev.current_bet)
    /\ [][(pc \in {"loop", "await"} /\ pc' \in {"loop", "await"}
           /\ ~(last_decision'.kind = "decision" /\ last_decision'.applied.action = "raise_to"))
          => (current_bet' = current_bet /\ last_full_raise' = last_full_raise)]_vars

\* a request that follows a raise of more than one big blind
C27_Witness ==
    /\ pc = "await"
    /\ last_full_raise > config.big_blind
    /\ request.to_call > config.big_blind
    /\ request.min_raise_to = current_bet + last_full_raise

\* ---------------------------------------------------------------- C28
\* seat is the only non-folded seat that is not all-in, and it has at least
\* one all-in opponent
OnlyBettor(seat) ==
    /\ {s \in Seats : IsActive(players, s)} = {seat}
    /\ \E s \in Seats : ~players[s].folded /\ players[s].all_in

\* C28: no betting against all-in opponents: when a street begins with
\* exactly one non-folded seat that is not all-in and that seat has nothing to
\* call, no decision is requested from it on that street (the request below
\* would be the first of the street).
C28_NoBettingAgainstAllIn ==
    (pc = "await" /\ \A s \in Seats : ~since_full[s])
        => ~(OnlyBettor(request.seat) /\ request.to_call = 0)

\* ---------------------------------------------------------------- C29
\* C29: per-seat chip accounting: at every point of a hand before the payout
\* every seat has stack >= 0 and stack + contribution equal to its stack after
\* the per-hand reset; a call moves exactly min(to_call, stack), an accepted
\* raise_to with target T leaves the street bet at min(T, bet + stack), and
\* the stack decreases by what the bet and the contribution increase.
C29_SeatAccounting ==
    /\ [](pc \notin {"reset", "done"} =>
            \A s \in Seats :
                /\ players[s].stack >= 0
                /\ players[s].stack + contributions[s] = start_stack[s])
    /\ []((Decided /\ error = "" /\ last_decision.raw.type = "ActionResponse") =>
            LET seat == last_decision.seat
                before == last_decision.prev.player
                moved == before.stack - players[seat].stack
            IN /\ players[seat].bet - before.bet = moved
               /\ last_decision.applied.action = "call"
                     => moved = Min(last_decision.request.to_call, before.stack)
               /\ last_decision.applied.action = "raise_to"
                     => /\ last_decision.raw.action = "raise_to"
                        /\ players[seat].bet
                             = Min(last_decision.raw.amount.val, before.bet + before.stack)
               /\ last_decision.applied.action \in {"fold", "check"} => moved = 0)
    /\ [][(pc = "await" /\ pc' # "error") =>
             \A s \in Seats :
                 contributions'[s] - contributions[s] = players[s].stack - players'[s].stack]_vars

\* a seat with fewer chips than its blind posted what it had, and a seat was
\* then put all-in by its call
C29_Witness ==
    /\ Decided /\ error = ""
    /\ last_decision.applied.action = "call"
    /\ players[last_decision.seat].stack = 0
    /\ last_decision.prev.player.stack < last_decision.request.to_call
    /\ \E s \in Seats : /\ s # last_decision.seat
                        /\ start_stack[s] < config.big_blind
                        /\ contributions[s] = start_stack[s]

\* ---------------------------------------------------------------- C30
\* C30: pot tracking: the pot carried through the betting rounds (the value
\* put into every ActionRequest and action event) equals the sum of all
\* seats' contributions at that moment.
C30_PotTracking ==
    pc # "reset" => pot = SumOver(contributions, Seats)

\* a request on a table with antes, one seat being all-in by its ante
C30_Witness ==
    /\ pc = "await"
    /\ config.ante > 0
    /\ \E s \in Seats : players[s].all_in /\ contributions[s] = config.ante
    /\ pot > config.ante * config.seat_count

\* ------------------------------------------------------------ payout cap
\* what seat s can be paid at most: its own contribution matched by each seat
PayoutCap(s) ==
    SumOver([t \in Seats |-> Min(contributions[t], contributions[s])], Seats)

\* C31: payout cap: in every completed hand a folded seat's payout is 0 and
\* the payout of a seat s never exceeds the sum over all seats t of
\* min(contribution of t, contribution of s).
C31_PayoutCap ==
    pc = "done" =>
        \A s \in Seats :
            /\ players[s].folded => payouts[s] = 0
            /\ payouts[s] <= PayoutCap(s)

\* ---------------------------------------------------------------- dealing
\* the cards held somewhere: in a seat's hand or on the board
HoleCardsOf(S) == UNION {SeqToSet(players[s].hole_cards) : s \in S}
CardsInPlay == HoleCardsOf(Seats) \cup SeqToSet(board_cards)

\* the deck positions of the board when every street is preceded by one burn
\* card: after the 2 * seat_count hole cards, burn, 3 cards, burn, 1, burn, 1
BurnedBoard ==
    LET h == 2 * config.seat_count IN <<h + 2, h + 3, h + 4, h + 6, h + 8>>

HoleCardsDealt == pc \notin {"reset", "deal_hole"}

\* C34: dealing from a deck without duplicates: each seat holds exactly two
\* hole cards, its first from the first pass and its second from the second
\* pass, both passes starting with the seat left of the button; the board
\* holds 0, 3, 4 or 5 cards, which are the cards that follow one burn card
\* per street (3, 1 and 1 cards), and the deck iterator stands right behind
\* the last of them; no card is in two places; and a showdown between two or
\* more non-folded seats is evaluated on a board of exactly 5 cards.
C34_Dealing ==
    /\ HoleCardsDealt =>
         /\ \A s \in Seats :
              players[s].hole_cards =
                  <<LeftDistance(s) + 1, config.seat_count + LeftDistance(s) + 1>>
         /\ Len(board_cards) \in {0, 3, 4, 5}
         /\ board_cards = SubSeq(BurnedBoard, 1, Len(board_cards))
         /\ deck_pos = IF board_cards = <<>> THEN 2 * config.seat_count
                       ELSE board_cards[Len(board_cards)]
         /\ Cardinality(CardsInPlay) = 2 * config.seat_count + Len(board_cards)
    /\ error # "ValueError"
    /\ AtShowdown => Len(board_cards) = 5

C34_Witness ==
    /\ AtShowdown
    /\ config.seat_count = 3
    /\ ~auto_runout
    /\ Len(board_cards) = 5
    /\ players[seat_after(button_seat, config.seat_count)].hole_cards = <<1, 4>>

\* ------------------------------------------------ one penalty per decision
\* growth of the two counters of seat s since the per-hand reset
CounterGrowth(s) == PenaltiesOf(players[s]) - start_counters[s]

PenaltyEvents == SelectSeq(events, LAMBDA e : e.event = "penalty")

\* C32: at most one penalty per decision: a decision raises the sum of the
\* deciding seat's timeouts and illegal_actions counters by at most 1 and no
\* other seat's counters; a timed-out decision raises timeouts by 1 and leaves
\* illegal_actions alone; no other step changes a counter within a hand; and
\* in every hand the number of penalty events emitted equals the growth of
\* the two counters summed over all seats.
C32_OnePenaltyPerDecision ==
    /\ [](IsResponse =>
            LET s == last_decision.seat
                before == last_decision.prev.player
            IN /\ PenaltiesOf(players[s]) - PenaltiesOf(before) \in {0, 1}
               /\ last_decision.timed_out =>
                    /\ players[s].timeouts = before.timeouts + 1
                    /\ players[s].illegal_actions = before.illegal_actions)
    /\ [](pc # "reset" =>
            Len(PenaltyEvents) = SumOver([s \in Seats |-> CounterGrowth(s)], Seats))
    /\ [][\A s \in Seats :
            PenaltiesOf(players'[s]) # PenaltiesOf(players[s])
                => (pc = "await" /\ s = request.seat)]_vars

C32_Witness ==
    /\ IsResponse
    /\ last_decision.timed_out
    /\ last_decision.raw.action \notin last_decision.request.legal_actions
    /\ Len(PenaltyEvents) = 1
    /\ PenaltyEvents[1].kind = "timeout"

\* ------------------------------------------------------------ termination
\* the sessions examined for termination: deep and short stacks, two and
\* three seats, an ante, a second hand, with and without the all-in run-out
FairTables ==
    {t \in Tables : t.config.stacks \in {<<1000, 1000>>, <<6, 6>>, <<7, 3>>, <<1, 5>>,
                                         <<2, 1, 7>>, <<3, 3, 3>>}}

InitFair ==
    /\ \E t \in FairTables : SessionOf(t) /\ sink = ReliableSink
    /\ recording = FALSE
    /\ Start
    /\ NoHand

\* the engine keeps running: play_hand is a sequential program, so a step
\* of its own that can be taken is taken
Progress ==
    \/ ResetPlayers
    \/ DealHoleCards
    \/ PostAntes
    \/ PostBlinds
    \/ BeginRound
    \/ ContinueLoop
    \/ RequestAction
    \/ AfterRound
    \/ DealStreet
    \/ RunOutBoard
    \/ NextHand

\* every agent call returns (with an ActionResponse or anything else): the
\* engine does not wait for an answer for ever; and play_hand does not rest
\* at the showdown, which is one step that always leaves pc = "showdown"
SpecFair ==
    /\ InitFair
    /\ [][Next]_vars
    /\ WF_vars(Progress)
    /\ []<>(pc # "await")
    /\ []<>(pc # "showdown")

MaxStartStack == CHOOSE m \in {start_stack[s] : s \in Seats} : \A s \in Seats : start_stack[s] <= m

\* C33: termination: as long as every agent call returns an ActionResponse
\* (no TypeError), every betting round that is begun returns to play_hand
\* and every hand that is begun ends with play_hand returning the deltas;
\* no exception other than that TypeError leaves play_hand; and every raise
\* applied sets current_bet strictly higher, never above the largest stack of
\* the hand, so no sequence of raises goes on for ever.
C33_Termination ==
    /\ (pc = "round_begin") ~> (pc = "after_round" \/ error = "TypeError")
    /\ (pc = "reset") ~> (pc = "done" \/ error = "TypeError")
    /\ [](error \in {"", "TypeError"})
    /\ [][(pc = "await" /\ pc' \notin {"await", "error"}
           /\ last_decision'.applied.action = "raise_to")
          => (current_bet' > current_bet /\ current_bet' <= MaxStartStack)]_vars

C33_Witness ==
    /\ pc = "done"
    /\ raises = MaxRaises
    /\ street = 4
    /\ TotalPenalties(players) > 0

\* ------------------------------------------------------------ first to act
\* the request is the first of its betting round: the history it carries has
\* no entry of the current street
FirstRequestOfRound ==
    /\ pc = "await"
    /\ \A i \in 1..Len(request.action_history) :
          request.action_history[i].street # STREETS[street]

\* the first seat, going clockwise from seat start (start included), that is
\* neither folded nor all-in
FirstEligibleFrom(start) ==
    LET steps == {k \in 0..(config.seat_count - 1) :
                     IsActive(players, (start + k) % config.seat_count)}
    IN IF steps = {} THEN {}
       ELSE {(start + (CHOOSE k \in steps : \A j \in steps : k <= j)) % config.seat_count}

\* C35: first to act: the first decision of the preflop round is requested
\* from the first seat after the big blind that is neither folded nor all-in
\* (heads-up the button is the small blind, the other seat the big blind,
\* and the button is asked first if it can act); the first decision of the
\* flop, turn and river rounds is requested from the first such seat left of
\* the button.
C35_FirstToAct ==
    LET big_blind_seat == _blind_seats(button_seat).big IN
    /\ (FirstRequestOfRound /\ config.seat_count = 2 /\ STREETS[street] = "preflop") =>
          LET other == seat_after(button_seat, 2) IN
          /\ players[button_seat].bet =
                Min(config.small_blind, players[button_seat].bet + players[button_seat].stack)
          /\ players[other].bet =
                Min(config.big_blind, players[other].bet + players[other].stack)
    /\ FirstRequestOfRound =>
          {request.seat} =
              IF STREETS[street] = "preflop"
              THEN FirstEligibleFrom(seat_after(big_blind_seat, config.seat_count))
              ELSE FirstEligibleFrom(seat_after(button_seat, config.seat_count))
    /\ (FirstRequestOfRound /\ config.seat_count = 2 /\ STREETS[street] = "preflop"
        /\ IsActive(players, button_seat))
          => request.seat = button_seat

C35_Witness ==
    /\ FirstRequestOfRound
    /\ config.seat_count = 3
    /\ STREETS[street] = "flop"
    /\ request.seat # seat_after(button_seat, config.seat_count)
    /\ Len(request.action_history) > 0

\* ------------------------------------------------------------ action record
ActionEvents == SelectSeq(events, LAMBDA e : e.event = "action")

\* what an action event and a history entry both say about an action
Recorded(e) ==
    [seat |-> IF "seat" \in DOMAIN e THEN e.seat ELSE e.seat_id,
     action |-> e.action, amount |-> e.amount, street |-> e.street,
     to_call |-> e.to_call, min_raise_to |-> e.min_raise_to]

\* the step is a decision: the agent answered the pending request with an
\* ActionResponse
DecisionStep ==
    /\ pc = "await"
    /\ last_decision'.kind = "decision"
    /\ last_decision'.raw.type = "ActionResponse"

\* C36: action record: every decision appends exactly one entry to the
\* action history and emits exactly one action event, the last event of the
\* decision, both recording the seat, the street and the action and amount
\* that were applied (the fallback when the decision was penalised); the
\* penalty event of a penalised decision names the applied fallback and
\* comes before that action event; no other step adds an entry or an action
\* event within a hand; every request carries the history of the hand so
\* far, whose entries are the applied actions in the order of their action
\* events.
C36_ActionRecord ==
    /\ [][DecisionStep =>
            LET d == last_decision'
                n == Len(events)
                m == Len(events')
                entry == action_history'[Len(action_history')]
            IN /\ action_history' = Append(action_history, entry)
               /\ entry.seat_id = d.seat
               /\ entry.action = d.applied.action
               /\ entry.amount = d.applied.amount
               /\ entry.street = STREETS[street]
               /\ m = n + 1 + (IF d.penalty = "none" THEN 0 ELSE 1)
               /\ SubSeq(events', 1, n) = events
               /\ events'[m].event = "action"
               /\ Recorded(events'[m]) = Recorded(entry)
               /\ d.penalty # "none" =>
                    /\ events'[n + 1].event = "penalty"
                    /\ events'[n + 1].seat = d.seat
                    /\ events'[n + 1].kind = d.penalty
                    /\ events'[n + 1].fallback = d.applied.action]_vars
    /\ [][~DecisionStep =>
            /\ action_history' \in {action_history, <<>>}
            /\ events' \in {events, <<>>}]_vars
    /\ [](pc = "await" => request.action_history = action_history)
    /\ [](/\ Len(ActionEvents) = Len(action_history)
          /\ \A i \in 1..Len(action_history) :
                Recorded(ActionEvents[i]) = Recorded(action_history[i]))

\* a penalised raise attempt recorded as its fallback, after earlier actions
C36_Witness ==
    /\ IsResponse
    /\ last_decision.penalty = "illegal_action"
    /\ last_decision.raw.action = "raise_to"
    /\ last_decision.applied.action \in {"check", "fold"}
    /\ Len(action_history) >= 3
    /\ action_history[Len(action_history)].action = last_decision.applied.action
    /\ events[Len(events)].event = "action"
    /\ events[Len(events) - 1].event = "penalty"
    /\ \E i \in 1..Len(action_history) : action_history[i].action = "raise_to"

\* ------------------------------------------------------- hand evaluator order
\* the cards of the hand as the evaluator received them
HandCards == cards_from_iterable(hand_cards).cards

\* tuple comparison: a is below b at the first position where they differ, or
\* a is a proper prefix of b
LexLess(a, b) ==
    \/ \E i \in 1..Min(Len(a), Len(b)) :
          /\ a[i] < b[i]
          /\ \A j \in 1..(i - 1) : a[j] = b[j]
    \/ /\ Len(a) < Len(b)
       /\ \A j \in 1..Len(a) : a[j] = b[j]

\* category first, then kickers lexicographically
ValueLess(v, w) == v[1] < w[1] \/ (v[1] = w[1] /\ LexLess(v[2], w[2]))

\* evaluate_five over every 5-card subset of the cards
SubsetValues(cards) ==
    {evaluate_five(Pick(cards, S)) : S \in Combinations(Len(cards))}

\* the same cards in another order
Reversed(q) == [i \in 1..Len(q) |-> q[Len(q) + 1 - i]]
Rotated(q, k) == [i \in 1..Len(q) |-> q[((i - 1 + k) % Len(q)) + 1]]

\* the same ranks with the suits exchanged: each suit becomes the k-th next
\* one of SUITS
Resuited(q, k) ==
    LET index(su) == CHOOSE i \in 1..Len(SUITS) : SUITS[i] = su
    IN [i \in 1..Len(q) |->
           [rank |-> q[i].rank,
            suit |-> SUITS[((index(q[i].suit) - 1 + k) % Len(SUITS)) + 1]]]

\* the sorted ranks of the 5-card subsets whose value is v
BestFiveRanks(cards, v) ==
    {SortedRanks(Pick(cards, S), SortedDesc(SeqRange(RankInts(Pick(cards, S))))) :
        S \in {T \in Combinations(Len(cards)) : evaluate_five(Pick(cards, T)) = v}}

\* hands the ranked hand is compared with
ComparedHands ==
    {[i \in 1..5 |-> [rank |-> r[i], suit |-> su[i]]] :
        r \in {<<"K", "9", "8", "7", "6">>, <<"9", "9", "9", "8", "8">>,
               <<"A", "5", "4", "3", "2">>, <<"K", "K", "6", "5", "4">>,
               <<"6", "5", "4", "3", "2">>},
        su \in {<<"s", "s", "s", "s", "s">>, <<"h", "d", "c", "s", "h">>,
                <<"c", "s", "d", "c", "d">>}}

\* C37: hand evaluator order: best_hand_rank of 5 to 7 cards is a value
\* evaluate_five gives to one of the 5-card subsets and no subset has a
\* value above it, category compared first and kickers lexicographically;
\* the cards in reversed or rotated order give the same result; the same
\* ranks in other suits of the same pattern give the same result, and a hand
\* of the same category whose best five cards have the same ranks has the
\* same value, neither comparing above the other.
C37_EvaluatorOrder ==
    Ranked =>
        LET cards == HandCards
            v == hand_value.rank
        IN /\ v \in SubsetValues(cards)
           /\ \A w \in SubsetValues(cards) : ~ValueLess(v, w)
           /\ best_hand_rank(Reversed(cards)).rank = v
           /\ \A k \in 1..3 : best_hand_rank(Rotated(cards, k)).rank = v
           /\ \A k \in 1..3 : best_hand_rank(Resuited(cards, k)).rank = v
           /\ \A other \in ComparedHands :
                 LET w == best_hand_rank(other).rank IN
                 (w[1] = v[1] /\ BestFiveRanks(other, w) \cap BestFiveRanks(cards, v) # {})
                    => (w = v /\ ~ValueGreater(v, w) /\ ~ValueGreater(w, v))

\* seven cards ranked a 6-high straight: another subset is the wheel, a
\* straight with a lower kicker, another one of a lower category, and a
\* compared hand of other suits has the same best five ranks
C37_Witness ==
    /\ Ranked
    /\ Len(hand_cards) = 7
    /\ hand_value.rank = <<5, <<6>>>>
    /\ <<5, <<5>>>> \in SubsetValues(HandCards)
    /\ ValueLess(<<5, <<5>>>>, hand_value.rank)
    /\ \E w \in SubsetValues(HandCards) : w[1] < 5
    /\ \E other \in ComparedHands :
          /\ other[1].suit = "c"
          /\ BestFiveRanks(other, hand_value.rank) = BestFiveRanks(HandCards, hand_value.rank)

====
